---- MODULE Spec2Model ----
(***************************************************************************)
(* kindle-to-x: the weekly pipeline of main.py.  The persisted document    *)
(* state.json, the highlight source, the publish target and the issue      *)
(* tracker are the state; every mode of main() is one action.              *)
(***************************************************************************)
EXTENDS Integers, Sequences, FiniteSets, TLC

VARIABLES
    file_exists,   \* os.path.exists(STATE_FILE)
    content,       \* the text of state.json, as characters
    disk,          \* the JSON document that text holds when it is one
    readwise,      \* the highlight source: the page it serves, where a
                   \* specification fixes it at the start
    raw,           \* the generation service: the text of a post as it
                   \* replies it, where a specification fixes it at the start
    inflight,      \* the invocations that have loaded the state and not yet
                   \* returned, where invocations overlap
    tweets,        \* the publish target: every tweet created so far, id = index
    issues,        \* the issue tracker: state of every issue created so far
    sent,          \* history: which queue item each tweet of `tweets` was
    epoch,         \* history: how often each pending queue was (re)built
    exit           \* history: the last invocation: its mode, its outcome, and
                   \* what its get_new_highlights call fetched and returned

vars == <<file_exists, content, disk, readwise, raw, inflight, tweets, issues, sent, epoch, exit>>

(***************************************************************************)
(* Bounds of the model.                                                    *)
(***************************************************************************)
MaxFetch == 2      \* highlights on the fetched page
MaxPosts == 2      \* posts parsed from one generation reply
MaxTweets == 3     \* publish calls that succeed
MaxEpoch == 2      \* rebuilds of one pending queue
MaxIssues == 2     \* issues created
MaxTime == 2       \* distinct highlight timestamps
MaxComments == 2   \* comments Generate finds on the interview issue
MaxText == 4       \* characters of a generated text before it is cleaned

\* Python's None for ids, issue numbers and timestamps; "" for timestamps too
\* (both are falsy and smaller than every real value).
None == 0

(***************************************************************************)
(* Texts are sequences of characters so that str.strip() is computed.      *)
(***************************************************************************)
RawTexts == { <<"a">>, <<" ", "a">>, <<"b", " ">> }

\* The characters of the model.  A character is a string; the two that are
\* not ASCII are written by their escapes: the em dash and an accented e.
Dashes == { "u2014", "u2013" }
NonAscii == Dashes \cup { "u00e9" }

\* the ASCII control characters among them (below \x20)
Control == { "\n" }

\* what str.strip() removes: the characters for which str.isspace() holds
Whitespace == { " ", "\n" }

RECURSIVE lstrip(_)
lstrip(s) == IF s # <<>> /\ Head(s) \in Whitespace THEN lstrip(Tail(s)) ELSE s

RECURSIVE rstrip(_)
rstrip(s) ==
    IF s # <<>> /\ s[Len(s)] \in Whitespace
    THEN rstrip(SubSeq(s, 1, Len(s) - 1)) ELSE s

strip(s) == rstrip(lstrip(s))

(***************************************************************************)
(* clean_post                                                              *)
(***************************************************************************)
\* post.replace("\u2014", "-").replace("\u2013", "-")
replace_dashes(post) ==
    [i \in DOMAIN post |-> IF post[i] \in Dashes THEN "-" ELSE post[i]]

\* re.sub(r'[^\x00-\x7F]+', '', post)
remove_non_ascii(post) == SelectSeq(post, LAMBDA c : c \notin NonAscii)

\* re.sub(r' +', ' ', post)
RECURSIVE collapse_spaces(_)
collapse_spaces(post) ==
    IF Len(post) < 2 THEN post
    ELSE IF post[1] = " " /\ post[2] = " " THEN collapse_spaces(Tail(post))
    ELSE <<Head(post)>> \o collapse_spaces(Tail(post))

\* a sanitizer that leaves the runs of spaces
clean_post_keeps_spaces(post) == strip(remove_non_ascii(replace_dashes(post)))

clean_post(post) ==
    strip(collapse_spaces(remove_non_ascii(replace_dashes(post))))

\* [clean_post(p.strip()) for p in posts if p.strip()], on the posts the
\* pattern found in the reply
generate_posts(posts) ==
    LET kept == SelectSeq(posts, LAMBDA p : strip(p) # <<>>)
    IN  [i \in DOMAIN kept |-> clean_post(strip(kept[i]))]

\* clean_post(response.content[0].text.strip())
generate_standalone_tweet(text) == clean_post(strip(text))

generate_interview_tweets(posts) ==
    LET kept == SelectSeq(posts, LAMBDA p : strip(p) # <<>>)
    IN  [i \in DOMAIN kept |-> clean_post(strip(kept[i]))]

\* str(h.get("book_id")): the JSON number as a dictionary key
BookIds == {42, 7}
str(n) == IF n = 42 THEN "42" ELSE "7"

Timestamps == None..MaxTime

\* every highlight carries `updated`; highlighted_at may be null
Highlights ==
    [text : RawTexts, book_id : BookIds,
     highlighted_at : Timestamps, updated : {1}]

\* h.get("highlighted_at") or h.get("updated") or ""
highlighted_at(h) ==
    IF h.highlighted_at # None THEN h.highlighted_at ELSE h.updated

(***************************************************************************)
(* get_new_highlights: filter by the seen set, group by book, take the     *)
(* book with the latest highlight.                                         *)
(***************************************************************************)
new_results_raw(results, seen_set) ==
    SelectSeq(results, LAMBDA h : h.text \notin seen_set)

\* [h for h in results if h.get("text", "").strip() not in seen_set]
new_results(results, seen_set) ==
    SelectSeq(results, LAMBDA h : strip(h.text) \notin seen_set)

\* the dict `books`: its keys in insertion order, and the entry of each key
NoBooks == [order |-> <<>>, of |-> [b \in {} |-> None]]

RECURSIVE group_by_book(_, _)
group_by_book(hs, books) ==
    IF hs = <<>> THEN books
    ELSE LET h == Head(hs)
             book_id == str(h.book_id)
             at == highlighted_at(h)
             b0 == IF book_id \in DOMAIN books.of THEN books
                   ELSE [order |-> Append(books.order, book_id),
                         of |-> books.of @@
                                (book_id :> [highlights |-> <<>>, latest |-> at])]
             e == b0.of[book_id]
             e1 == [highlights |-> Append(e.highlights, strip(h.text)),
                    latest |-> IF at > e.latest THEN at ELSE e.latest]
         IN  group_by_book(Tail(hs), [b0 EXCEPT !.of[book_id] = e1])

\* max(books, key=lambda b: books[b]["latest"]): the first maximal key
RECURSIVE max_by_latest(_, _, _)
max_by_latest(books, keys, best) ==
    IF keys = <<>> THEN best
    ELSE max_by_latest(books, Tail(keys),
             IF books.of[Head(keys)].latest > books.of[best].latest
             THEN Head(keys) ELSE best)

first_book(books) == Head(books.order)

most_recent_book_id(books) ==
    max_by_latest(books, Tail(books.order), Head(books.order))

NoHighlights ==
    [book_id |-> "", book_title |-> "", highlights |-> <<>>, new_results |-> <<>>]

\* a lookup that reads the title whatever the status
get_new_highlights_any_title(seen_highlights, response, book_response) ==
    LET new == new_results(response.results, seen_highlights)
        books == group_by_book(new, NoBooks)
        id == most_recent_book_id(books)
    IN  IF response.results = <<>> \/ new = <<>> THEN NoHighlights
        ELSE [book_id |-> id,
              book_title |-> book_response.title,
              highlights |-> books.of[id].highlights,
              new_results |-> new]

\* response: the page fetched (status 200); book_response: the metadata lookup
get_new_highlights(seen_highlights, response, book_response) ==
    LET new == new_results(response.results, seen_highlights)
        books == group_by_book(new, NoBooks)
        id == most_recent_book_id(books)
    IN  IF response.results = <<>> \/ new = <<>> THEN NoHighlights
        ELSE [book_id |-> id,
              book_title |-> IF book_response.status_code = 200
                             THEN book_response.title ELSE "Unknown Book",
              highlights |-> books.of[id].highlights,
              new_results |-> new]

(***************************************************************************)
(* State management                                                        *)
(***************************************************************************)
NoRating == [rating |-> None, notes |-> <<>>, tweets |-> <<>>]

FreshState ==
    [seen_highlights |-> {},
     book_threads |-> [b \in {} |-> None],
     pending_tweets |-> <<>>,
     interview |-> [issue_number |-> None, questions |-> <<>>,
                    pending_tweets |-> <<>>, last_answer |-> <<>>,
                    last_rating |-> NoRating],
     voice_examples |-> <<>>,
     question_history |-> <<>>]

\* the texts state.json can hold: the document json.dump wrote, nothing,
\* blanks only, a document cut short
Document == <<"{", "}">>
Contents == { Document, <<>>, <<" ">>, <<"{">> }

\* json.loads succeeds on a document and raises JSONDecodeError otherwise
json_loads_raises(text) == text # Document

load_state_unchecked == IF file_exists THEN disk ELSE FreshState

\* exists -> read().strip() -> `if content` -> json.loads; every other path
\* falls through to the fresh state
load_state ==
    IF file_exists /\ strip(content) # <<>> /\ ~json_loads_raises(strip(content))
    THEN disk ELSE FreshState

\* a save that keeps the seen texts the file holds
save_state_merging(state) ==
    /\ file_exists' = TRUE
    /\ content' = Document
    /\ disk' = [state EXCEPT !.seen_highlights =
                    state.seen_highlights \cup load_state.seen_highlights]

\* open(STATE_FILE, "w"); json.dump: the whole document replaces the file
save_state(state) == file_exists' = TRUE /\ content' = Document /\ disk' = state

Range(s) == { s[i] : i \in DOMAIN s }

\* s[-n:]
LastN(s, n) == IF Len(s) <= n THEN s ELSE SubSeq(s, Len(s) - n + 1, Len(s))

NoFetch == [new_results |-> <<>>, book_id |-> "", highlights |-> <<>>]

\* no publish call was made
NoAttempt == -1

\* the status codes of the two requests get_new_highlights makes, None for a
\* request it did not make
NoHttp == [highlights |-> None, book |-> None]

\* the book request is made once a book has been picked from unseen results
Http(response, book_response, got) ==
    [highlights |-> response.status_code,
     book |-> IF response.status_code = 200 /\ got.new_results # <<>>
              THEN book_response.status_code ELSE None]

\* a check that lets a rate-limit answer through
raise_unless_rate_limited(response) == response.status_code \notin {200, 429}

\* if response.status_code != 200: raise Exception(...)
raise_for_status(response) == response.status_code # 200

\* VOICE_EXAMPLES, the examples built into the program
VOICE_EXAMPLES == << [a |-> <<"x">>, tweet |-> <<"t">>] >>

RECURSIVE merge_examples(_, _)
merge_examples(examples, saved) ==
    IF saved = <<>> THEN examples
    ELSE merge_examples(IF Head(saved) \in Range(examples) THEN examples
                        ELSE Append(examples, Head(saved)),
                        Tail(saved))

\* get_voice_context(state): the examples its text is made of; saved is
\* state.get("voice_examples", []), and nothing when no state is given
get_voice_context(saved) == merge_examples(VOICE_EXAMPLES, saved)

\* the context the generation calls of the program are made with:
\* get_voice_context() is called without a state
voice_context == get_voice_context(<<>>)

\* the history of one invocation: attempt is the order of the item given to
\* the publish call, voice the examples its generation calls were given,
\* rated the rating it read from the issue
\* http is what the highlight source answered
Answered(mode, status, http, fetch, attempt, voice, rated) ==
    exit' = [mode |-> mode, status |-> status, http |-> http, fetch |-> fetch,
             attempt |-> attempt, voice |-> voice, rated |-> rated]

Outcome(mode, status, fetch, attempt, voice, rated) ==
    Answered(mode, status, NoHttp, fetch, attempt, voice, rated)

Exit(mode, status) == Outcome(mode, status, NoFetch, NoAttempt, <<>>, None)

Attempted(mode, status, tweet) ==
    Outcome(mode, status, NoFetch, tweet.order, <<>>, None)

(***************************************************************************)
(* GENERATE mode                                                           *)
(***************************************************************************)
new_pending_books_only(posts, standalone, book_id, book_title) ==
    [i \in 1..Len(posts) |->
        [order |-> i - 1, text |-> posts[i], posted |-> FALSE,
         tweet_id |-> None, book_id |-> book_id, book_title |-> book_title,
         type |-> "book"]]

\* the queue built from the parsed posts and the standalone tweet
new_pending(posts, standalone, book_id, book_title) ==
    [i \in 1..Len(posts) |->
        [order |-> i - 1, text |-> posts[i], posted |-> FALSE,
         tweet_id |-> None, book_id |-> book_id, book_title |-> book_title,
         type |-> "book"]]
    \o
    << [order |-> Len(posts), text |-> standalone, posted |-> FALSE,
        tweet_id |-> None, book_id |-> book_id, book_title |-> book_title,
        type |-> "standalone"] >>

\* list(set(seen_highlights + highlights))
forget_seen(seen_highlights, highlights) == Range(highlights)

merge_seen(seen_highlights, highlights) == seen_highlights \cup Range(highlights)

generate_books_append(state, got, posts, standalone) ==
    IF got.highlights # <<>>
    THEN [state EXCEPT
            !.pending_tweets = state.pending_tweets \o
                               new_pending(posts, standalone, got.book_id,
                                           got.book_title),
            !.seen_highlights = merge_seen(state.seen_highlights, got.highlights)]
    ELSE state

generate_books_all_seen(state, got, posts, standalone) ==
    IF got.highlights # <<>>
    THEN [state EXCEPT
            !.pending_tweets = new_pending(posts, standalone, got.book_id,
                                           got.book_title),
            !.seen_highlights = state.seen_highlights \cup
                                { strip(h.text) : h \in Range(got.new_results) }]
    ELSE state

\* the book half of run_generate, on the loaded state
generate_books(state, got, posts, standalone) ==
    IF got.highlights # <<>>
    THEN [state EXCEPT
            !.pending_tweets = new_pending(posts, standalone, got.book_id,
                                           got.book_title),
            !.seen_highlights = merge_seen(state.seen_highlights, got.highlights)]
    ELSE state

new_interview_pending(interview_tweets) ==
    [i \in 1..Len(interview_tweets) |->
        [order |-> i - 1, text |-> interview_tweets[i], posted |-> FALSE,
         tweet_id |-> None, type |-> "interview"]]

\* the interview half of run_generate; a comment is
\* [bot, marker ("RATING:" in body), rating (the digit matched, None if the
\*  pattern does not match), notes, body]
\* saved_examples.append(...) without the [-5:]
keep_all(s, n) == s

\* saved_examples[-5:]
keep_last(s, n) == LastN(s, n)

\* if rating == 3: ... if last_answer and last_tweet: append, keep 5
save_example(voice_examples, rating, last_answer, last_tweet) ==
    IF rating = 3 /\ last_answer # <<>> /\ last_tweet # <<>>
    THEN keep_last(Append(voice_examples, [a |-> last_answer, tweet |-> last_tweet]), 5)
    ELSE voice_examples

\* the comments of the account owner that hold `RATING:`
rating_comments(comments) == SelectSeq(comments, LAMBDA c : ~c.bot /\ c.marker)

\* the rating read from the last of them, None when there is none or the
\* pattern does not match it, or no interview is open
found_rating(state, comments) ==
    IF /\ state.interview.issue_number # None
       /\ state.interview.questions # <<>>
       /\ rating_comments(comments) # <<>>
    THEN rating_comments(comments)[Len(rating_comments(comments))].rating
    ELSE None

generate_interview(state, comments, interview_tweets) ==
    LET interview == state.interview
        user_comments == SelectSeq(comments, LAMBDA c : ~c.bot)
        rc == rating_comments(comments)[Len(rating_comments(comments))]
        rated == found_rating(state, comments) # None
        rated_tweets == interview.pending_tweets
        i1 == IF rated
              THEN [interview EXCEPT !.last_rating =
                       [rating |-> rc.rating, notes |-> rc.notes,
                        tweets |-> rated_tweets]]
              ELSE interview
        last_answer == interview.last_answer
        last_tweet == IF rated_tweets # <<>> THEN rated_tweets[1].text ELSE <<>>
        examples ==
            save_example(state.voice_examples, found_rating(state, comments),
                         last_answer, last_tweet)
        answer_comments == SelectSeq(user_comments, LAMBDA c : ~c.marker)
        i2 == IF answer_comments # <<>>
              THEN [i1 EXCEPT
                      !.last_answer = strip(answer_comments[Len(answer_comments)].body),
                      !.pending_tweets = new_interview_pending(interview_tweets)]
              ELSE i1
    IN  IF interview.issue_number # None /\ interview.questions # <<>>
        THEN [state EXCEPT !.interview = i2, !.voice_examples = examples]
        ELSE state

\* what the run fetched, for the history
Fetched(got) ==
    [new_results |-> got.new_results, book_id |-> got.book_id,
     highlights |-> got.highlights]

\* the examples given to generate_interview_tweets and
\* generate_reply_suggestions, which run when an interview is open
generate_voice(state, comments) ==
    IF state.interview.issue_number # None /\ state.interview.questions # <<>>
    THEN voice_context ELSE <<>>

\* does this run rebuild the interview queue?
interview_answered(state, comments) ==
    /\ state.interview.issue_number # None
    /\ state.interview.questions # <<>>
    /\ \E i \in DOMAIN comments : ~comments[i].bot /\ ~comments[i].marker

run_generate(response, book_response, posts, standalone, comments, interview_tweets, raises) ==
    LET state == load_state
        got == get_new_highlights(state.seen_highlights, response, book_response)
        s1 == generate_books(state, got, posts, standalone)
        s2 == generate_interview(s1, comments, interview_tweets)
        e1 == IF got.highlights # <<>> THEN epoch.book + 1 ELSE epoch.book
        e2 == IF interview_answered(state, comments)
              THEN epoch.interview + 1 ELSE epoch.interview
    IN  \/ /\ raise_for_status(response) \/ raises
           /\ Answered("generate", "raised", Http(response, book_response, got),
                       IF raise_for_status(response) THEN NoFetch ELSE Fetched(got),
                       NoAttempt, <<>>, None)
           /\ UNCHANGED <<file_exists, content, disk, readwise, raw, inflight, tweets, issues, sent, epoch>>
        \/ /\ ~raise_for_status(response) /\ ~raises
           /\ e1 <= MaxEpoch /\ e2 <= MaxEpoch
           /\ save_state(s2)
           /\ epoch' = [book |-> e1, interview |-> e2, queue |-> e1]
           /\ Answered("generate", "ok", Http(response, book_response, got),
                       Fetched(got), NoAttempt,
                       generate_voice(state, comments), found_rating(state, comments))
           /\ UNCHANGED <<readwise, raw, inflight, tweets, issues, sent>>

(***************************************************************************)
(* Publishing                                                              *)
(***************************************************************************)
\* post_single_tweet: `if reply_to_id` makes None a top-level tweet; the id
\* returned is the id of the tweet created
post_single_tweet(tweet_text, reply_to_id) ==
    tweets' = Append(tweets, [text |-> tweet_text, in_reply_to |-> reply_to_id])

new_tweet_id == Len(tweets) + 1

\* built: which build of its queue the item belongs to
SentOf(queue, tweet, built) ==
    sent' = Append(sent, [queue |-> queue, epoch |-> built,
                          order |-> tweet.order, type |-> tweet.type,
                          book_id |-> IF queue = "interview" THEN ""
                                      ELSE tweet.book_id])

Sent(queue, tweet) ==
    SentOf(queue, tweet, IF queue = "interview" THEN epoch.interview ELSE epoch.book)

unposted_any(pending, type) == SelectSeq(pending, LAMBDA t : ~t.posted)

\* [t for t in pending if not t.get("posted") and t.get("type") == type]
unposted_of(pending, type) ==
    SelectSeq(pending, LAMBDA t : ~t.posted /\ t.type = type)

mark_posted_next(pending, tweet_order, tweet_id) ==
    [i \in DOMAIN pending |->
        IF pending[i].order = tweet_order + 1
        THEN [pending[i] EXCEPT !.posted = TRUE, !.tweet_id = tweet_id]
        ELSE pending[i]]

\* for t in pending: if t["order"] == tweet_order: posted, tweet_id
mark_posted(pending, tweet_order, tweet_id) ==
    [i \in DOMAIN pending |->
        IF pending[i].order = tweet_order
        THEN [pending[i] EXCEPT !.posted = TRUE, !.tweet_id = tweet_id]
        ELSE pending[i]]

mark_posted_no_id(pending, tweet_order, tweet_id) ==
    [i \in DOMAIN pending |->
        IF pending[i].order = tweet_order /\ pending[i].type = "standalone"
        THEN [pending[i] EXCEPT !.posted = TRUE]
        ELSE pending[i]]

\* the same with `and t.get("type") == "standalone"`
mark_posted_standalone(pending, tweet_order, tweet_id) ==
    [i \in DOMAIN pending |->
        IF pending[i].order = tweet_order /\ pending[i].type = "standalone"
        THEN [pending[i] EXCEPT !.posted = TRUE, !.tweet_id = tweet_id]
        ELSE pending[i]]

first_tweet_id(book_threads, book_id) ==
    IF book_id \in DOMAIN book_threads
    THEN book_threads[book_id].first_tweet_id ELSE None

\* book_threads.get(book_id, {}).get("last_tweet_id")
last_tweet_id(book_threads, book_id) ==
    IF book_id \in DOMAIN book_threads
    THEN book_threads[book_id].last_tweet_id ELSE None

create_thread(book_threads, book_id, book_title, tweet_id) ==
    IF book_id \in DOMAIN book_threads THEN book_threads
    ELSE book_threads @@
         (book_id :> [title |-> book_title, first_tweet_id |-> tweet_id,
                      last_tweet_id |-> tweet_id])

reset_thread(book_threads, book_id, book_title, tweet_id) ==
    [b \in DOMAIN book_threads \cup {book_id} |->
        IF b = book_id
        THEN [title |-> book_title, first_tweet_id |-> tweet_id,
              last_tweet_id |-> tweet_id]
        ELSE book_threads[b]]

\* if book_id not in book_threads: create it; then set last_tweet_id
update_thread(book_threads, book_id, book_title, tweet_id) ==
    LET created == IF book_id \in DOMAIN book_threads THEN book_threads
                   ELSE book_threads @@
                        (book_id :> [title |-> book_title,
                                     first_tweet_id |-> tweet_id,
                                     last_tweet_id |-> None])
    IN  [created EXCEPT ![book_id].last_tweet_id = tweet_id]

(***************************************************************************)
(* POST mode                                                               *)
(***************************************************************************)
\* a post mode that marks the item before the publish call
run_post_marks_first(published) ==
    LET state == load_state
        pending == state.pending_tweets
        book_threads == state.book_threads
        unposted == unposted_of(pending, "book")
        tweet == unposted[1]
        tweet_id == new_tweet_id
    IN  \/ /\ unposted = <<>>
           /\ Exit("post", "nothing")
           /\ UNCHANGED <<file_exists, content, disk, readwise, raw, inflight, tweets, issues, sent, epoch>>
        \/ /\ unposted # <<>> /\ ~published
           /\ save_state([state EXCEPT
                  !.pending_tweets = mark_posted(pending, tweet.order, None)])
           /\ Attempted("post", "raised", tweet)
           /\ UNCHANGED <<readwise, raw, inflight, tweets, issues, sent, epoch>>
        \/ /\ unposted # <<>> /\ published
           /\ Len(tweets) < MaxTweets
           /\ post_single_tweet(tweet.text, last_tweet_id(book_threads, tweet.book_id))
           /\ Sent("book", tweet)
           /\ save_state([state EXCEPT
                  !.pending_tweets = mark_posted(pending, tweet.order, tweet_id),
                  !.book_threads = update_thread(book_threads, tweet.book_id,
                                                 tweet.book_title, tweet_id)])
           /\ Attempted("post", "ok", tweet)
           /\ UNCHANGED <<readwise, raw, inflight, issues, epoch>>

run_post(published) ==
    LET state == load_state
        pending == state.pending_tweets
        book_threads == state.book_threads
        unposted == unposted_of(pending, "book")
        tweet == unposted[1]
        tweet_id == new_tweet_id
    IN  \/ /\ unposted = <<>>
           /\ Exit("post", "nothing")
           /\ UNCHANGED <<file_exists, content, disk, readwise, raw, inflight, tweets, issues, sent, epoch>>
        \/ /\ unposted # <<>> /\ ~published
           /\ Attempted("post", "raised", tweet)
           /\ UNCHANGED <<file_exists, content, disk, readwise, raw, inflight, tweets, issues, sent, epoch>>
        \/ /\ unposted # <<>> /\ published
           /\ Len(tweets) < MaxTweets
           /\ post_single_tweet(tweet.text, last_tweet_id(book_threads, tweet.book_id))
           /\ Sent("book", tweet)
           /\ save_state([state EXCEPT
                  !.pending_tweets = mark_posted(pending, tweet.order, tweet_id),
                  !.book_threads = update_thread(book_threads, tweet.book_id,
                                                 tweet.book_title, tweet_id)])
           /\ Attempted("post", "ok", tweet)
           /\ UNCHANGED <<readwise, raw, inflight, issues, epoch>>

(***************************************************************************)
(* POST_STANDALONE mode                                                    *)
(***************************************************************************)
\* a standalone tweet published as a reply in the thread of its book
run_post_standalone_in_thread(published) ==
    LET state == load_state
        pending == state.pending_tweets
        unposted == unposted_of(pending, "standalone")
        tweet == unposted[1]
        tweet_id == new_tweet_id
    IN  \/ /\ unposted = <<>>
           /\ Exit("post_standalone", "nothing")
           /\ UNCHANGED <<file_exists, content, disk, readwise, raw, inflight, tweets, issues, sent, epoch>>
        \/ /\ unposted # <<>> /\ ~published
           /\ Attempted("post_standalone", "raised", tweet)
           /\ UNCHANGED <<file_exists, content, disk, readwise, raw, inflight, tweets, issues, sent, epoch>>
        \/ /\ unposted # <<>> /\ published
           /\ Len(tweets) < MaxTweets
           /\ post_single_tweet(tweet.text,
                                last_tweet_id(state.book_threads, tweet.book_id))
           /\ Sent("book", tweet)
           /\ save_state([state EXCEPT !.pending_tweets =
                  mark_posted_standalone(pending, tweet.order, tweet_id)])
           /\ Attempted("post_standalone", "ok", tweet)
           /\ UNCHANGED <<readwise, raw, inflight, issues, epoch>>

run_post_standalone(published) ==
    LET state == load_state
        pending == state.pending_tweets
        unposted == unposted_of(pending, "standalone")
        tweet == unposted[1]
        tweet_id == new_tweet_id
    IN  \/ /\ unposted = <<>>
           /\ Exit("post_standalone", "nothing")
           /\ UNCHANGED <<file_exists, content, disk, readwise, raw, inflight, tweets, issues, sent, epoch>>
        \/ /\ unposted # <<>> /\ ~published
           /\ Attempted("post_standalone", "raised", tweet)
           /\ UNCHANGED <<file_exists, content, disk, readwise, raw, inflight, tweets, issues, sent, epoch>>
        \/ /\ unposted # <<>> /\ published
           /\ Len(tweets) < MaxTweets
           /\ post_single_tweet(tweet.text, None)
           /\ Sent("book", tweet)
           /\ save_state([state EXCEPT !.pending_tweets =
                  mark_posted_standalone(pending, tweet.order, tweet_id)])
           /\ Attempted("post_standalone", "ok", tweet)
           /\ UNCHANGED <<readwise, raw, inflight, issues, epoch>>

(***************************************************************************)
(* POST_INTERVIEW mode                                                     *)
(***************************************************************************)
no_reply_to(pending, tweet_order) == None

\* next((t for t in pending if t["order"] == tweet_order - 1), None), then
\* prev.get("tweet_id")
interview_reply_to(pending, tweet_order) ==
    LET prevs == SelectSeq(pending, LAMBDA t : t.order = tweet_order - 1)
    IN  IF tweet_order > 0 /\ prevs # <<>> THEN prevs[1].tweet_id ELSE None

\* commented: the rating request reached the issue (otherwise requests.post raised)
run_post_interview(published, commented) ==
    LET state == load_state
        interview == state.interview
        pending == interview.pending_tweets
        unposted == unposted_of(pending, "interview")
        tweet == unposted[1]
        tweet_id == new_tweet_id
        marked == mark_posted(pending, tweet.order, tweet_id)
        remaining == unposted_of(marked, "interview")
    IN  \/ /\ unposted = <<>>
           /\ Exit("post_interview", "nothing")
           /\ UNCHANGED <<file_exists, content, disk, readwise, raw, inflight, tweets, issues, sent, epoch>>
        \/ /\ unposted # <<>> /\ ~published
           /\ Attempted("post_interview", "raised", tweet)
           /\ UNCHANGED <<file_exists, content, disk, readwise, raw, inflight, tweets, issues, sent, epoch>>
        \/ /\ unposted # <<>> /\ published
           /\ Len(tweets) < MaxTweets
           /\ post_single_tweet(tweet.text, interview_reply_to(pending, tweet.order))
           /\ Sent("interview", tweet)
           /\ save_state([state EXCEPT !.interview.pending_tweets = marked])
           /\ Attempted("post_interview",
                        IF remaining = <<>> /\ interview.issue_number # None
                           /\ ~commented
                        THEN "raised after save" ELSE "ok", tweet)
           /\ UNCHANGED <<readwise, raw, inflight, issues, epoch>>

(***************************************************************************)
(* INTERVIEW_ASK mode                                                      *)
(***************************************************************************)
leave_open(issue_number) == issues

\* close_github_issue: the PATCH is taken as served; the program does not
\* look at the response
close_github_issue(issue_number) ==
    [issues EXCEPT ![issue_number] = "closed"]

\* questions: what generate_interview_questions returned; created: the issue
\* tracker answered 201
run_interview_ask(questions, asked, created) ==
    LET state == load_state
        old_issue == state.interview.issue_number
        closed == IF old_issue # None THEN close_github_issue(old_issue) ELSE issues
        issue_number == Len(issues) + 1
    IN  \/ /\ ~asked \/ questions = <<>> \/ ~created
           /\ issues' = closed
           /\ Exit("interview_ask", "raised")
           /\ UNCHANGED <<file_exists, content, disk, readwise, raw, inflight, tweets, sent, epoch>>
        \/ /\ asked /\ questions # <<>> /\ created
           /\ Len(issues) < MaxIssues
           /\ issues' = Append(closed, "open")
           /\ save_state([state EXCEPT
                  !.question_history = LastN(state.question_history \o questions, 16),
                  !.interview = [issue_number |-> issue_number,
                                 questions |-> questions,
                                 pending_tweets |-> <<>>,
                                 last_answer |-> <<>>,
                                 last_rating |-> NoRating]])
           /\ Outcome("interview_ask", "ok", NoFetch, NoAttempt, voice_context, None)
           /\ UNCHANGED <<readwise, raw, inflight, tweets, sent, epoch>>

(***************************************************************************)
(* The environment and the inputs of one invocation                        *)
(***************************************************************************)
Seqs(S, n) == UNION { [1..k -> S] : k \in 0..n }

\* a page holds a highlight once
Pages(S, n) ==
    { p \in Seqs(S, n) : \A i, j \in DOMAIN p : i # j => p[i] # p[j] }

\* the highlights the main specification puts on the reader's shelf: two
\* books, texts that differ only in surrounding blanks, a missing
\* highlighted_at
Shelf ==
    { [text |-> <<" ", "a">>, book_id |-> 42, highlighted_at |-> 1, updated |-> 1],
      [text |-> <<"a">>, book_id |-> 7, highlighted_at |-> 2, updated |-> 1],
      [text |-> <<"b", " ">>, book_id |-> 42, highlighted_at |-> None, updated |-> 1] }

PostTexts == { <<"p">> }
Titles == { "Zero to One" }
BookResponses ==
    [status_code : {200}, title : Titles] \cup [status_code : {404}, title : {""}]

Answer == [bot |-> FALSE, marker |-> FALSE, rating |-> None, notes |-> <<>>,
           body |-> <<"y", " ">>]
Questions == { <<"q1", "q2">> }

\* the book pipeline alone: the interview record stays as load_state made it
GenerateBooks ==
    \E results \in Pages(Shelf, MaxFetch), book_response \in BookResponses,
       posts \in Seqs(PostTexts, MaxPosts), standalone \in PostTexts :
        run_generate([status_code |-> 200, results |-> results], book_response,
                     posts, standalone, <<>>, <<>>, FALSE)

GenerateRaises ==
    \E status_code \in {200, 429, 500} :
        run_generate([status_code |-> status_code, results |-> <<>>],
                     [status_code |-> 404, title |-> ""], <<>>, <<"p">>, <<>>,
                     <<>>, status_code = 200)

Post == \E published \in BOOLEAN : run_post(published)

PostStandalone == \E published \in BOOLEAN : run_post_standalone(published)

\* the invocations that may overlap: the scheduler firing twice
Invocations == {1, 2}

Idle == [pc |-> "idle", mode |-> "", start |-> FreshState, state |-> FreshState,
         built |-> 0, tweet_id |-> None]

NoEpoch == [book |-> 0, interview |-> 0, queue |-> 0]

NoExit == [mode |-> "", status |-> "", http |-> NoHttp, fetch |-> NoFetch,
           attempt |-> NoAttempt, voice |-> <<>>, rated |-> None]

Init ==
    /\ file_exists = FALSE
    /\ content = <<>>
    /\ disk = FreshState
    /\ readwise = <<>>
    /\ raw = <<>>
    /\ inflight = [p \in Invocations |-> Idle]
    /\ tweets = <<>>
    /\ issues = <<>>
    /\ sent = <<>>
    /\ epoch = NoEpoch
    /\ exit = NoExit

NextBooks ==
    \/ GenerateBooks
    \/ GenerateRaises
    \/ Post
    \/ PostStandalone

SpecBooks == Init /\ [][NextBooks]_vars

(***************************************************************************)
(* All five modes, with at most one highlight a page and one post a reply *)
(***************************************************************************)
Generate ==
    \E results \in Pages(Shelf, 1), posts \in Seqs(PostTexts, 1),
       standalone \in PostTexts, comments \in {<<>>, <<Answer>>},
       interview_tweets \in Seqs(PostTexts, 1) :
        run_generate([status_code |-> 200, results |-> results],
                     [status_code |-> 200, title |-> "Zero to One"],
                     posts, standalone, comments, interview_tweets, FALSE)

PostInterview ==
    \E published, commented \in BOOLEAN : run_post_interview(published, commented)

InterviewAsk ==
    \E questions \in Questions \cup {<<>>}, asked, created \in BOOLEAN :
        run_interview_ask(questions, asked, created)

Next ==
    \/ Generate
    \/ GenerateRaises
    \/ Post
    \/ PostStandalone
    \/ PostInterview
    \/ InterviewAsk

Spec == Init /\ [][Next]_vars

(***************************************************************************)
(* Deduplication and grouping alone: the page served and the seen set are  *)
(* drawn at the start, and Generate runs on them until nothing is unseen.  *)
(***************************************************************************)
InitDedup ==
    /\ file_exists = TRUE
    /\ content = Document
    /\ \E seen \in SUBSET { strip(t) : t \in RawTexts } :
          disk = [FreshState EXCEPT !.seen_highlights = seen]
    /\ readwise \in Pages(Highlights, MaxFetch)
    /\ raw = <<>>
    /\ inflight = [p \in Invocations |-> Idle]
    /\ tweets = <<>>
    /\ issues = <<>>
    /\ sent = <<>>
    /\ epoch = NoEpoch
    /\ exit = NoExit

GenerateFetched ==
    \E status_code \in {200, 500} :
        run_generate([status_code |-> status_code, results |-> readwise],
                     [status_code |-> 200, title |-> "Zero to One"],
                     <<>>, <<"p">>, <<>>, <<>>, FALSE)

NextDedup == GenerateFetched

SpecDedup == InitDedup /\ [][NextDedup]_vars

(***************************************************************************)
(* The interview pipeline alone: interview_ask, the comments Generate      *)
(* finds on the issue, post_interview.  No highlight is fetched.           *)
(***************************************************************************)
\* a comment `RATING: n` of the account owner; n = None when the text after
\* the marker is not one of 1, 2, 3
Rate(n) == [bot |-> FALSE, marker |-> TRUE, rating |-> n, notes |-> <<"n">>,
            body |-> <<>>]

\* the rating request as a bot account posts it: it holds `RATING:` too
BotComment == [bot |-> TRUE, marker |-> TRUE, rating |-> 3, notes |-> <<>>,
               body |-> <<>>]

Comments == { Answer, Rate(1), Rate(2), Rate(3), Rate(None), BotComment }

\* what generate_interview_tweets returns: nothing parseable, one tweet, two
InterviewTweets == { <<>>, << <<"p">> >>, << <<"q">>, <<"p">> >> }

\* generate_interview_tweets is called when there is an answer to write from
GenerateInterview ==
    \E comments \in Seqs(Comments, MaxComments) :
    \E interview_tweets \in IF Answer \in Range(comments) THEN InterviewTweets
                             ELSE {<<>>} :
        run_generate([status_code |-> 200, results |-> <<>>],
                     [status_code |-> 404, title |-> ""],
                     <<>>, <<"p">>, comments, interview_tweets, FALSE)

NextInterview ==
    \/ GenerateInterview
    \/ GenerateRaises
    \/ PostInterview
    \/ InterviewAsk

SpecInterview == Init /\ [][NextInterview]_vars

(***************************************************************************)
(* The sanitizer in the pipeline: the text the generation service replies  *)
(* is drawn at the start; Generate parses it as a book post, as the        *)
(* standalone tweet or as an interview tweet, and queues what clean_post   *)
(* makes of it.                                                            *)
(***************************************************************************)
Alphabet == { "a", " ", "\n", "u2014", "u00e9" }

InitSanitize ==
    /\ file_exists = FALSE
    /\ content = <<>>
    /\ disk = FreshState
    /\ readwise = <<>>
    /\ raw \in Seqs(Alphabet, MaxText)
    /\ inflight = [p \in Invocations |-> Idle]
    /\ tweets = <<>>
    /\ issues = <<>>
    /\ sent = <<>>
    /\ epoch = NoEpoch
    /\ exit = NoExit

\* the reply of the other generation calls of the run
Plain == <<"p">>

\* the page of the week: one highlight
OnePage ==
    << [text |-> <<"a">>, book_id |-> 7, highlighted_at |-> 2, updated |-> 1] >>

GenerateSanitized ==
    \E slot \in {"book", "standalone", "interview"} :
        run_generate([status_code |-> 200, results |-> OnePage],
                     [status_code |-> 200, title |-> "Zero to One"],
                     generate_posts(<< IF slot = "book" THEN raw ELSE Plain >>),
                     generate_standalone_tweet(
                         IF slot = "standalone" THEN raw ELSE Plain),
                     <<Answer>>,
                     generate_interview_tweets(
                         << IF slot = "interview" THEN raw ELSE Plain >>),
                     FALSE)

NextSanitize ==
    \/ GenerateSanitized
    \/ InterviewAsk

SpecSanitize == InitSanitize /\ [][NextSanitize]_vars

(***************************************************************************)
(* Overlapping invocations of generate and post.  Nothing coordinates the  *)
(* read of state.json at the start of an invocation with the write at its  *)
(* end, so each mode is taken apart at its calls: load_state, the publish  *)
(* call, save_state.                                                       *)
(***************************************************************************)
Loaded(p, mode) ==
    inflight' = [inflight EXCEPT ![p] =
        [pc |-> "loaded", mode |-> mode, start |-> load_state,
         state |-> load_state, built |-> epoch.queue, tweet_id |-> None]]

Returned(p) == inflight' = [inflight EXCEPT ![p] = Idle]

\* run_post up to `if not unposted: return`
run_post_load(p) ==
    /\ inflight[p].pc = "idle"
    /\ \/ /\ unposted_of(load_state.pending_tweets, "book") = <<>>
          /\ Exit("post", "nothing")
          /\ UNCHANGED <<file_exists, content, disk, readwise, raw, inflight, tweets, issues, sent, epoch>>
       \/ /\ unposted_of(load_state.pending_tweets, "book") # <<>>
          /\ Loaded(p, "post")
          /\ UNCHANGED <<file_exists, content, disk, readwise, raw, tweets, issues, sent, epoch, exit>>

\* a publish step that selects from the file as it is now
run_post_publish_reloads(p, published) ==
    LET state == load_state
        unposted == unposted_of(state.pending_tweets, "book")
        tweet == unposted[1]
    IN  /\ inflight[p].pc = "loaded" /\ inflight[p].mode = "post"
        /\ unposted # <<>>
        /\ published
        /\ Len(tweets) < MaxTweets
        /\ post_single_tweet(tweet.text,
                             last_tweet_id(state.book_threads, tweet.book_id))
        /\ SentOf("book", tweet, epoch.queue)
        /\ inflight' = [inflight EXCEPT ![p].pc = "published",
                                        ![p].tweet_id = new_tweet_id]
        /\ UNCHANGED <<file_exists, content, disk, readwise, raw, issues, epoch, exit>>

\* a publish step that writes the posted flag at once
run_post_publish_marks(p, published) ==
    LET state == inflight[p].state
        unposted == unposted_of(state.pending_tweets, "book")
        tweet == unposted[1]
    IN  /\ inflight[p].pc = "loaded" /\ inflight[p].mode = "post"
        /\ published
        /\ Len(tweets) < MaxTweets
        /\ post_single_tweet(tweet.text,
                             last_tweet_id(state.book_threads, tweet.book_id))
        /\ SentOf("book", tweet, inflight[p].built)
        /\ save_state([state EXCEPT !.pending_tweets =
               mark_posted(state.pending_tweets, tweet.order, new_tweet_id)])
        /\ inflight' = [inflight EXCEPT ![p].pc = "published",
                                        ![p].tweet_id = new_tweet_id]
        /\ UNCHANGED <<readwise, raw, issues, epoch, exit>>

\* run_post from the selection of unposted[0] to the return of
\* post_single_tweet
run_post_publish(p, published) ==
    LET state == inflight[p].state
        unposted == unposted_of(state.pending_tweets, "book")
        tweet == unposted[1]
    IN  /\ inflight[p].pc = "loaded" /\ inflight[p].mode = "post"
        /\ \/ /\ ~published
              /\ Attempted("post", "raised", tweet)
              /\ Returned(p)
              /\ UNCHANGED <<file_exists, content, disk, readwise, raw, tweets, issues, sent, epoch>>
           \/ /\ published
              /\ Len(tweets) < MaxTweets
              /\ post_single_tweet(tweet.text,
                                   last_tweet_id(state.book_threads, tweet.book_id))
              /\ SentOf("book", tweet, inflight[p].built)
              /\ inflight' = [inflight EXCEPT ![p].pc = "published",
                                              ![p].tweet_id = new_tweet_id]
              /\ UNCHANGED <<file_exists, content, disk, readwise, raw, issues, epoch, exit>>

\* run_post from the marking of the item to save_state
run_post_save(p) ==
    LET state == inflight[p].state
        pending == state.pending_tweets
        tweet == unposted_of(pending, "book")[1]
        tweet_id == inflight[p].tweet_id
    IN  /\ inflight[p].pc = "published" /\ inflight[p].mode = "post"
        /\ save_state([state EXCEPT
               !.pending_tweets = mark_posted(pending, tweet.order, tweet_id),
               !.book_threads = update_thread(state.book_threads, tweet.book_id,
                                              tweet.book_title, tweet_id)])
        /\ epoch' = [epoch EXCEPT !.queue = inflight[p].built]
        /\ Attempted("post", "ok", tweet)
        /\ Returned(p)
        /\ UNCHANGED <<readwise, raw, tweets, issues, sent>>

\* run_generate: load_state
run_generate_load(p) ==
    /\ inflight[p].pc = "idle"
    /\ Loaded(p, "generate")
    /\ UNCHANGED <<file_exists, content, disk, readwise, raw, tweets, issues, sent, epoch, exit>>

\* a Generate run that saves the book half before the interview half
run_generate_saves_books(p, response, book_response, posts, standalone, comments, interview_tweets, raises) ==
    LET state == inflight[p].state
        got == get_new_highlights(state.seen_highlights, response, book_response)
        s1 == generate_books(state, got, posts, standalone)
        s2 == generate_interview(s1, comments, interview_tweets)
        e1 == IF got.highlights # <<>> THEN epoch.book + 1 ELSE epoch.book
        e2 == IF interview_answered(state, comments)
              THEN epoch.interview + 1 ELSE epoch.interview
    IN  /\ inflight[p].pc = "loaded" /\ inflight[p].mode = "generate"
        /\ e1 <= MaxEpoch /\ e2 <= MaxEpoch
        /\ IF raise_for_status(response)
           THEN UNCHANGED <<file_exists, content, disk>>
           ELSE save_state(IF raises THEN s1 ELSE s2)
        /\ epoch' = IF raise_for_status(response) THEN epoch
                    ELSE [book |-> e1,
                          interview |-> IF raises THEN epoch.interview ELSE e2,
                          queue |-> IF got.highlights # <<>> THEN e1
                                    ELSE inflight[p].built]
        /\ Answered("generate",
                    IF raise_for_status(response) \/ raises THEN "raised" ELSE "ok",
                    Http(response, book_response, got),
                    IF raise_for_status(response) THEN NoFetch ELSE Fetched(got),
                    NoAttempt, <<>>, None)
        /\ Returned(p)
        /\ UNCHANGED <<readwise, raw, tweets, issues, sent>>

\* run_generate from get_new_highlights to save_state, on the state loaded;
\* raises: a call made after get_new_highlights raised
run_generate_save(p, response, book_response, posts, standalone, comments, interview_tweets, raises) ==
    LET state == inflight[p].state
        got == get_new_highlights(state.seen_highlights, response, book_response)
        s1 == generate_books(state, got, posts, standalone)
        s2 == generate_interview(s1, comments, interview_tweets)
        e1 == IF got.highlights # <<>> THEN epoch.book + 1 ELSE epoch.book
        e2 == IF interview_answered(state, comments)
              THEN epoch.interview + 1 ELSE epoch.interview
    IN  /\ inflight[p].pc = "loaded" /\ inflight[p].mode = "generate"
        /\ \/ /\ raise_for_status(response) \/ raises
              /\ Answered("generate", "raised", Http(response, book_response, got),
                          IF raise_for_status(response) THEN NoFetch ELSE Fetched(got),
                          NoAttempt, <<>>, None)
              /\ Returned(p)
              /\ UNCHANGED <<file_exists, content, disk, readwise, raw, tweets, issues, sent, epoch>>
           \/ /\ ~raise_for_status(response) /\ ~raises
              /\ e1 <= MaxEpoch /\ e2 <= MaxEpoch
              /\ save_state(s2)
              /\ epoch' = [book |-> e1, interview |-> e2,
                           queue |-> IF got.highlights # <<>> THEN e1
                                     ELSE inflight[p].built]
              /\ Answered("generate", "ok", Http(response, book_response, got),
                          Fetched(got), NoAttempt,
                          generate_voice(state, comments),
                          found_rating(state, comments))
              /\ Returned(p)
              /\ UNCHANGED <<readwise, raw, tweets, issues, sent>>

PostRace ==
    \E p \in Invocations :
        \/ run_post_load(p)
        \/ \E published \in BOOLEAN : run_post_publish(p, published)
        \/ run_post_save(p)

GenerateRace ==
    \E p \in Invocations :
        \/ run_generate_load(p)
        \/ \E results \in Pages(Shelf, 1), posts \in Seqs(PostTexts, MaxPosts),
              status_code \in {200, 500} :
                run_generate_save(p, [status_code |-> status_code, results |-> results],
                                  [status_code |-> 200, title |-> "Zero to One"],
                                  posts, <<"p">>, <<>>, <<>>, FALSE)

NextRace == PostRace \/ GenerateRace

SpecRace == Init /\ [][NextRace]_vars

(***************************************************************************)
(* One week of the book pipeline: Generate builds the queue once, then     *)
(* post mode is invoked again and again.  The scheduler keeps invoking     *)
(* post mode, and a publish call that can succeed does not fail forever.   *)
(***************************************************************************)
\* Generate, as long as no queue has been built
GenerateFirst == epoch.book = 0 /\ GenerateBooks

PostPublishes == run_post(TRUE)

NextWeek ==
    \/ GenerateFirst
    \/ Post

SpecWeek == Init /\ [][NextWeek]_vars /\ WF_vars(PostPublishes)

(***************************************************************************)
(* Invocations that do not run to their end.  One invocation runs at a     *)
(* time; each mode is taken apart at its external calls and at save_state, *)
(* and the process can be ended between two of them.                       *)
(***************************************************************************)
\* run_post_standalone up to `if not unposted: return`
run_post_standalone_load(p) ==
    /\ inflight[p].pc = "idle"
    /\ \/ /\ unposted_of(load_state.pending_tweets, "standalone") = <<>>
          /\ Exit("post_standalone", "nothing")
          /\ UNCHANGED <<file_exists, content, disk, readwise, raw, inflight, tweets, issues, sent, epoch>>
       \/ /\ unposted_of(load_state.pending_tweets, "standalone") # <<>>
          /\ Loaded(p, "post_standalone")
          /\ UNCHANGED <<file_exists, content, disk, readwise, raw, tweets, issues, sent, epoch, exit>>

\* the call of post_single_tweet(tweet_text)
run_post_standalone_publish(p, published) ==
    LET state == inflight[p].state
        tweet == unposted_of(state.pending_tweets, "standalone")[1]
    IN  /\ inflight[p].pc = "loaded" /\ inflight[p].mode = "post_standalone"
        /\ \/ /\ ~published
              /\ Attempted("post_standalone", "raised", tweet)
              /\ Returned(p)
              /\ UNCHANGED <<file_exists, content, disk, readwise, raw, tweets, issues, sent, epoch>>
           \/ /\ published
              /\ Len(tweets) < MaxTweets
              /\ post_single_tweet(tweet.text, None)
              /\ SentOf("book", tweet, inflight[p].built)
              /\ inflight' = [inflight EXCEPT ![p].pc = "published",
                                              ![p].tweet_id = new_tweet_id]
              /\ UNCHANGED <<file_exists, content, disk, readwise, raw, issues, epoch, exit>>

\* from the marking of the item to save_state
run_post_standalone_save(p) ==
    LET state == inflight[p].state
        pending == state.pending_tweets
        tweet == unposted_of(pending, "standalone")[1]
    IN  /\ inflight[p].pc = "published" /\ inflight[p].mode = "post_standalone"
        /\ save_state([state EXCEPT !.pending_tweets =
               mark_posted_standalone(pending, tweet.order, inflight[p].tweet_id)])
        /\ Attempted("post_standalone", "ok", tweet)
        /\ Returned(p)
        /\ UNCHANGED <<readwise, raw, tweets, issues, sent, epoch>>

\* run_post_interview up to `if not unposted: return`
run_post_interview_load(p) ==
    /\ inflight[p].pc = "idle"
    /\ \/ /\ unposted_of(load_state.interview.pending_tweets, "interview") = <<>>
          /\ Exit("post_interview", "nothing")
          /\ UNCHANGED <<file_exists, content, disk, readwise, raw, inflight, tweets, issues, sent, epoch>>
       \/ /\ unposted_of(load_state.interview.pending_tweets, "interview") # <<>>
          /\ Loaded(p, "post_interview")
          /\ UNCHANGED <<file_exists, content, disk, readwise, raw, tweets, issues, sent, epoch, exit>>

\* the call of post_single_tweet(tweet_text, reply_to_id=reply_to_id)
run_post_interview_publish(p, published) ==
    LET pending == inflight[p].state.interview.pending_tweets
        tweet == unposted_of(pending, "interview")[1]
    IN  /\ inflight[p].pc = "loaded" /\ inflight[p].mode = "post_interview"
        /\ \/ /\ ~published
              /\ Attempted("post_interview", "raised", tweet)
              /\ Returned(p)
              /\ UNCHANGED <<file_exists, content, disk, readwise, raw, tweets, issues, sent, epoch>>
           \/ /\ published
              /\ Len(tweets) < MaxTweets
              /\ post_single_tweet(tweet.text, interview_reply_to(pending, tweet.order))
              /\ SentOf("interview", tweet, epoch.interview)
              /\ inflight' = [inflight EXCEPT ![p].pc = "published",
                                              ![p].tweet_id = new_tweet_id]
              /\ UNCHANGED <<file_exists, content, disk, readwise, raw, issues, epoch, exit>>

\* from the marking of the item to save_state; the rating request follows
\* when no item remains and an issue is recorded
run_post_interview_save(p) ==
    LET state == inflight[p].state
        pending == state.interview.pending_tweets
        tweet == unposted_of(pending, "interview")[1]
        marked == mark_posted(pending, tweet.order, inflight[p].tweet_id)
        remaining == unposted_of(marked, "interview")
    IN  /\ inflight[p].pc = "published" /\ inflight[p].mode = "post_interview"
        /\ save_state([state EXCEPT !.interview.pending_tweets = marked])
        /\ IF remaining = <<>> /\ state.interview.issue_number # None
           THEN /\ inflight' = [inflight EXCEPT ![p].pc = "saved"]
                /\ UNCHANGED exit
           ELSE /\ Attempted("post_interview", "ok", tweet)
                /\ Returned(p)
        /\ UNCHANGED <<readwise, raw, tweets, issues, sent, epoch>>

\* requests.post of the rating request: it reaches the issue or it raises
run_post_interview_comment(p, commented) ==
    LET pending == inflight[p].state.interview.pending_tweets
        tweet == unposted_of(pending, "interview")[1]
    IN  /\ inflight[p].pc = "saved" /\ inflight[p].mode = "post_interview"
        /\ Attempted("post_interview",
                     IF commented THEN "ok" ELSE "raised after save", tweet)
        /\ Returned(p)
        /\ UNCHANGED <<file_exists, content, disk, readwise, raw, tweets, issues, sent, epoch>>

\* run_interview_ask: load_state
run_interview_ask_load(p) ==
    /\ inflight[p].pc = "idle"
    /\ Loaded(p, "interview_ask")
    /\ UNCHANGED <<file_exists, content, disk, readwise, raw, tweets, issues, sent, epoch, exit>>

\* from close_github_issue to the new interview record in memory
run_interview_ask_create(p, questions, asked, created) ==
    LET state == inflight[p].state
        old_issue == state.interview.issue_number
        closed == IF old_issue # None THEN close_github_issue(old_issue) ELSE issues
        issue_number == Len(issues) + 1
    IN  /\ inflight[p].pc = "loaded" /\ inflight[p].mode = "interview_ask"
        /\ \/ /\ ~asked \/ questions = <<>> \/ ~created
              /\ issues' = closed
              /\ Exit("interview_ask", "raised")
              /\ Returned(p)
              /\ UNCHANGED <<file_exists, content, disk, readwise, raw, tweets, sent, epoch>>
           \/ /\ asked /\ questions # <<>> /\ created
              /\ Len(issues) < MaxIssues
              /\ issues' = Append(closed, "open")
              /\ inflight' = [inflight EXCEPT
                     ![p].pc = "created",
                     ![p].state = [state EXCEPT
                         !.question_history =
                             LastN(state.question_history \o questions, 16),
                         !.interview = [issue_number |-> issue_number,
                                        questions |-> questions,
                                        pending_tweets |-> <<>>,
                                        last_answer |-> <<>>,
                                        last_rating |-> NoRating]]]
              /\ UNCHANGED <<file_exists, content, disk, readwise, raw, tweets, sent, epoch, exit>>

\* save_state(state); the analytics digest follows
run_interview_ask_save(p) ==
    /\ inflight[p].pc = "created" /\ inflight[p].mode = "interview_ask"
    /\ save_state(inflight[p].state)
    /\ inflight' = [inflight EXCEPT ![p].pc = "saved"]
    /\ UNCHANGED <<readwise, raw, tweets, issues, sent, epoch, exit>>

\* post_analytics_digest inside try/except: posted or skipped, the run ends
\* normally
run_interview_ask_digest(p) ==
    /\ inflight[p].pc = "saved" /\ inflight[p].mode = "interview_ask"
    /\ Outcome("interview_ask", "ok", NoFetch, NoAttempt, voice_context, None)
    /\ Returned(p)
    /\ UNCHANGED <<file_exists, content, disk, readwise, raw, tweets, issues, sent, epoch>>

\* the item an invocation of a post mode selected: unposted[0]
unposted_first(p) ==
    LET state == inflight[p].state
    IN  CASE inflight[p].mode = "post" ->
                 unposted_of(state.pending_tweets, "book")[1]
          [] inflight[p].mode = "post_standalone" ->
                 unposted_of(state.pending_tweets, "standalone")[1]
          [] inflight[p].mode = "post_interview" ->
                 unposted_of(state.interview.pending_tweets, "interview")[1]

\* the process is ended where it is: the job is cancelled or times out, or
\* an error is raised outside the calls above (post_single_tweet reading
\* response.data["id"], save_state opening the file)
Stop(p) ==
    /\ inflight[p].pc # "idle"
    /\ Outcome(inflight[p].mode,
               CASE inflight[p].pc = "published" -> "stopped after publish"
                 [] inflight[p].pc = "saved" -> "stopped after save"
                 [] OTHER -> "stopped",
               NoFetch,
               IF inflight[p].mode \in {"post", "post_standalone", "post_interview"}
               THEN unposted_first(p).order ELSE NoAttempt,
               <<>>, None)
    /\ Returned(p)
    /\ UNCHANGED <<file_exists, content, disk, readwise, raw, tweets, issues, sent, epoch>>

\* the invocation the scheduler has started
Running == CHOOSE p \in Invocations : TRUE

GenerateSteps ==
    \/ run_generate_load(Running)
    \/ \E posts \in [1..MaxPosts -> PostTexts], status_code \in {200, 500},
          comments \in {<<>>, <<Answer>>}, raises \in BOOLEAN :
        LET results == OnePage
            interview_tweets == IF comments # <<>> THEN << <<"q">>, <<"p">> >>
                                ELSE <<>>
        IN  run_generate_save(Running,
                              [status_code |-> status_code, results |-> results],
                              [status_code |-> 200, title |-> "Zero to One"],
                              posts, <<"p">>, comments, interview_tweets, raises)

PostSteps ==
    \/ run_post_load(Running)
    \/ \E published \in BOOLEAN : run_post_publish(Running, published)
    \/ run_post_save(Running)

PostStandaloneSteps ==
    \/ run_post_standalone_load(Running)
    \/ \E published \in BOOLEAN : run_post_standalone_publish(Running, published)
    \/ run_post_standalone_save(Running)

PostInterviewSteps ==
    \/ run_post_interview_load(Running)
    \/ \E published \in BOOLEAN : run_post_interview_publish(Running, published)
    \/ run_post_interview_save(Running)
    \/ \E commented \in BOOLEAN : run_post_interview_comment(Running, commented)

InterviewAskSteps ==
    \/ run_interview_ask_load(Running)
    \/ \E questions \in Questions, created \in BOOLEAN :
            run_interview_ask_create(Running, questions, TRUE, created)
    \/ run_interview_ask_save(Running)
    \/ run_interview_ask_digest(Running)

NextSteps ==
    \/ GenerateSteps
    \/ PostSteps
    \/ PostStandaloneSteps
    \/ PostInterviewSteps
    \/ InterviewAskSteps
    \/ Stop(Running)

SpecSteps == Init /\ [][NextSteps]_vars

(***************************************************************************)
(* The book pipeline with a state file that can be lost: removed, emptied, *)
(* left with blanks, or cut short by a write that did not finish.          *)
(***************************************************************************)
Damage ==
    /\ file_exists
    /\ \/ file_exists' = FALSE /\ content' = <<>>
       \/ file_exists' = TRUE /\ content' \in Contents \ {Document, content}
    /\ exit' = NoExit
    /\ UNCHANGED <<disk, readwise, raw, inflight, tweets, issues, sent, epoch>>

NextLoad ==
    \/ GenerateBooks
    \/ GenerateRaises
    \/ Post
    \/ PostStandalone
    \/ Damage

SpecLoad == Init /\ [][NextLoad]_vars

(***************************************************************************)
(* Properties                                                              *)
(***************************************************************************)
\* the persisted state, as the next invocation will load it
Persisted == load_state
PersistedNext == IF file_exists' THEN disk' ELSE FreshState

Published == Len(tweets') = Len(tweets) + 1

Max(S) == CHOOSE m \in S : \A n \in S : n <= m

\* the queue item a tweet was: its queue, the build of that queue, its order
ItemOf(k) == <<sent[k].queue, sent[k].epoch, sent[k].order>>

TimesSent(queue, order) ==
    Cardinality({ k \in DOMAIN sent :
        ItemOf(k) = <<queue, IF queue = "interview" THEN epoch.interview
                             ELSE epoch.book, order>> })

\* C1: over all runs of the five modes, failed publish calls included, no
\* queue item is published twice: no two tweets were the same item, an item
\* marked posted was sent exactly once and an unposted item never.
C1_PublishedAtMostOnce ==
    /\ \A i, j \in DOMAIN sent : i # j => ItemOf(i) # ItemOf(j)
    /\ \A i \in DOMAIN Persisted.pending_tweets :
          LET t == Persisted.pending_tweets[i]
          IN  TimesSent("book", t.order) = IF t.posted THEN 1 ELSE 0
    /\ \A i \in DOMAIN Persisted.interview.pending_tweets :
          LET t == Persisted.interview.pending_tweets[i]
          IN  TimesSent("interview", t.order) = IF t.posted THEN 1 ELSE 0

\* every post mode has published, a publish call has failed after that, the
\* book queue was rebuilt, and one item of each kind is marked posted
C1_Witness ==
    /\ Len(sent) = MaxTweets
    /\ { sent[k].type : k \in DOMAIN sent } = {"book", "standalone", "interview"}
    /\ exit.status = "raised"
    /\ \E i \in DOMAIN Persisted.interview.pending_tweets :
          Persisted.interview.pending_tweets[i].posted

\* the parts of C2: the flag matches the id; a posted item is set once
C2_FlagMatchesId(q) == \A i \in DOMAIN q : q[i].posted <=> q[i].tweet_id # None

C2_SetOnce(queue, q, q1, rebuilt) ==
    \A i \in DOMAIN q \cap DOMAIN q1 :
        ~rebuilt =>
            /\ q[i].posted => q1[i] = q[i]
            /\ ~q[i].posted /\ q1[i].posted =>
                  /\ Published
                  /\ q1[i].tweet_id = Len(tweets')
                  /\ sent'[Len(sent')].queue = queue
                  /\ sent'[Len(sent')].order = q[i].order

\* C2: in the persisted queues posted holds exactly when tweet_id is set; the
\* two are set in one step, by the publish call that sent the item, to the id
\* of the tweet created, and a posted item is not changed while it stays queued.
C2_PostedIffId ==
    /\ [](C2_FlagMatchesId(Persisted.pending_tweets)
          /\ C2_FlagMatchesId(Persisted.interview.pending_tweets))
    /\ [][/\ C2_SetOnce("book", Persisted.pending_tweets,
                        PersistedNext.pending_tweets, epoch'.book # epoch.book)
          /\ C2_SetOnce("interview", Persisted.interview.pending_tweets,
                        PersistedNext.interview.pending_tweets,
                        epoch'.interview # epoch.interview
                        \/ exit'.mode = "interview_ask")]_vars

\* a standalone item and an interview item are posted with their ids
C2_Witness ==
    /\ \E i \in DOMAIN Persisted.pending_tweets :
          LET t == Persisted.pending_tweets[i]
          IN  t.type = "standalone" /\ t.posted /\ t.tweet_id # None
    /\ \E i \in DOMAIN Persisted.interview.pending_tweets :
          Persisted.interview.pending_tweets[i].tweet_id # None
    /\ \E i \in DOMAIN Persisted.pending_tweets :
          ~Persisted.pending_tweets[i].posted

\* C7: no invocation of any mode removes a text from the persisted
\* seen_highlights.
C7_SeenOnlyGrows ==
    [][Persisted.seen_highlights \subseteq PersistedNext.seen_highlights]_vars

\* a Generate run has added texts to a seen set that was not empty
C7_Witness ==
    /\ exit.mode = "generate" /\ exit.status = "ok"
    /\ exit.fetch.highlights # <<>>
    /\ Persisted.seen_highlights \ Range(exit.fetch.highlights) # {}

BookTweets(b) ==
    { k \in DOMAIN sent : sent[k].type = "book" /\ sent[k].book_id = b }

PostPublished == Published /\ exit'.mode = "post"

\* the parts of C3: the chain as published; the reply target of one publish
C3_Chain ==
    \A k \in DOMAIN sent :
        sent[k].type = "book" =>
            LET earlier == { j \in BookTweets(sent[k].book_id) : j < k }
            IN  tweets[k].in_reply_to =
                    IF earlier = {} THEN None ELSE Max(earlier)

C3_Step ==
    PostPublished =>
        LET k == Len(tweets')
            b == sent'[k].book_id
            threads == Persisted.book_threads
        IN  /\ b \in DOMAIN threads =>
                 tweets'[k].in_reply_to = threads[b].last_tweet_id
            /\ tweets'[k].in_reply_to = None <=> b \notin DOMAIN threads

\* C3: a book tweet published by post mode replies to the last_tweet_id of its
\* book's thread record as loaded, and is top-level exactly when the book has
\* no thread record; so the book tweets of one book form one reply chain in
\* publication order, which continues across rebuilds of the queue.
C3_ReplyChain == []C3_Chain /\ [][C3_Step]_vars

\* three book tweets of one book, the last from a later build of the queue
\* than the one it replies to
C3_Witness ==
    \E b \in {"42", "7"} :
        /\ Cardinality(BookTweets(b)) = 3
        /\ \E j, k \in BookTweets(b) :
              /\ sent[j].epoch < sent[k].epoch
              /\ tweets[k].in_reply_to = j

\* C4 as stated: last_tweet_id is the id of the most recent tweet published
\* for the book, of whatever type.
C4_LastOfAnyType ==
    \A k \in DOMAIN sent :
        LET b == sent[k].book_id
        IN  /\ b \in DOMAIN Persisted.book_threads
            /\ Persisted.book_threads[b].last_tweet_id =
                   Max({ j \in DOMAIN sent : sent[j].book_id = b })

\* C4, amended: for every book with a published book-type tweet,
\* last_tweet_id is the id of the most recent book-type tweet of that book.
C4_LastBookTweet ==
    \A k \in DOMAIN sent :
        sent[k].type = "book" =>
            LET b == sent[k].book_id
            IN  /\ b \in DOMAIN Persisted.book_threads
                /\ Persisted.book_threads[b].last_tweet_id = Max(BookTweets(b))

\* two book tweets of one book, then its standalone tweet
C4_Witness ==
    \E b \in DOMAIN Persisted.book_threads :
        /\ Cardinality(BookTweets(b)) = 2
        /\ \E k \in DOMAIN sent :
              /\ sent[k].type = "standalone" /\ sent[k].book_id = b
              /\ k > Max(BookTweets(b))
        /\ Persisted.book_threads[b].first_tweet_id
               # Persisted.book_threads[b].last_tweet_id

\* what one step may do to the thread records
C5_Step ==
    LET old == Persisted.book_threads
        new == PersistedNext.book_threads
        k == Len(tweets')
        b == sent'[k].book_id
        item == CHOOSE t \in Range(Persisted.pending_tweets) :
                    t.order = sent'[k].order
    IN  /\ DOMAIN old \subseteq DOMAIN new
        /\ PostPublished =>
              /\ b \in DOMAIN new
              /\ b \notin DOMAIN old =>
                    new[b] = [title |-> item.book_title, first_tweet_id |-> k,
                              last_tweet_id |-> k]
              /\ b \in DOMAIN old =>
                    new[b] = [old[b] EXCEPT !.last_tweet_id = k]
              /\ \A c \in DOMAIN old \ {b} : new[c] = old[c]
        /\ ~PostPublished => new = old

\* C5: the first post-mode publish for a book creates its thread record with
\* first_tweet_id = last_tweet_id = the new id and the item's title; a later
\* one changes last_tweet_id alone; no step removes a thread record or changes
\* another book's.
C5_ThreadRecord == [][C5_Step]_vars

\* a thread that has grown, whose title is not the title the current queue
\* carries for that book
C5_Witness ==
    \E b \in DOMAIN Persisted.book_threads :
        /\ Persisted.book_threads[b].first_tweet_id
               # Persisted.book_threads[b].last_tweet_id
        /\ exit.mode = "post" /\ exit.status = "ok"
        /\ \E i \in DOMAIN Persisted.pending_tweets :
              LET t == Persisted.pending_tweets[i]
              IN  /\ t.book_id = b /\ t.posted /\ t.type = "book"
                  /\ t.tweet_id = Persisted.book_threads[b].last_tweet_id
                  /\ t.book_title # Persisted.book_threads[b].title

GenerateCompleted == exit'.mode = "generate" /\ exit'.status = "ok"

\* a queue as one Generate run builds it
NewlyBuilt(q, book_id) ==
    /\ q # <<>>
    /\ \A i \in DOMAIN q :
          /\ q[i].order = i - 1
          /\ ~q[i].posted
          /\ q[i].tweet_id = None
          /\ q[i].book_id = book_id
          /\ q[i].type = IF i = Len(q) THEN "standalone" ELSE "book"

\* C6 as stated: every completed Generate run leaves a queue of unposted
\* items in which nothing of the earlier queue remains.
C6_AlwaysReplaced ==
    [][GenerateCompleted =>
          /\ \A i \in DOMAIN PersistedNext.pending_tweets :
                ~PersistedNext.pending_tweets[i].posted
          /\ Persisted.pending_tweets # <<>> => epoch'.book = epoch.book + 1]_vars

\* C6, amended: every completed Generate run that finds an unseen highlight
\* leaves exactly the queue it built: orders 0..n, all unposted, the
\* standalone item last, nothing of the earlier queue.
C6_ReplacedWhenUnseen ==
    [][GenerateCompleted /\ exit'.fetch.new_results # <<>> =>
          /\ NewlyBuilt(PersistedNext.pending_tweets, exit'.fetch.book_id)
          /\ epoch'.book = epoch.book + 1]_vars

\* a second Generate run has rebuilt the queue before anything of the first
\* queue was published
C6_Witness ==
    /\ exit.mode = "generate" /\ exit.status = "ok"
    /\ exit.fetch.new_results # <<>>
    /\ epoch.book = 2
    /\ tweets = <<>>

Used(f) == Range(f.highlights)

OthersUnseen(f) ==
    { h \in Range(f.new_results) : str(h.book_id) # f.book_id }

GenerateUsed(f) ==
    /\ \A i \in DOMAIN PersistedNext.pending_tweets :
          PersistedNext.pending_tweets[i].book_id = f.book_id
    /\ Used(f) = { strip(h.text) : h \in Range(f.new_results) \ OthersUnseen(f) }
    /\ PersistedNext.seen_highlights = Persisted.seen_highlights \cup Used(f)

\* C9 as stated: ... and no unseen highlight of another book is marked seen.
C9_OthersNeverSeen ==
    [][GenerateCompleted /\ exit'.fetch.new_results # <<>> =>
          /\ GenerateUsed(exit'.fetch)
          /\ \A h \in OthersUnseen(exit'.fetch) :
                strip(h.text) \notin PersistedNext.seen_highlights]_vars

\* C9, amended: a Generate run that finds unseen highlights saves a queue
\* whose items all carry the selected book's id and a seen set equal to the
\* old one united with the trimmed texts of the selected book's unseen
\* highlights; an unseen highlight of another book is not marked seen unless
\* its trimmed text is that of a highlight just used.
C9_SeenIsUsed ==
    [][GenerateCompleted /\ exit'.fetch.new_results # <<>> =>
          /\ GenerateUsed(exit'.fetch)
          /\ \A h \in OthersUnseen(exit'.fetch) :
                strip(h.text) \notin Used(exit'.fetch) =>
                    strip(h.text) \notin PersistedNext.seen_highlights]_vars

\* a run that used one book's highlight and left another book's unseen
C9_Witness ==
    /\ exit.mode = "generate" /\ exit.status = "ok"
    /\ \E h \in OthersUnseen(exit.fetch) :
          strip(h.text) \notin Persisted.seen_highlights
    /\ Persisted.seen_highlights = Used(exit.fetch)

\* what one Generate run considers and passes on
C8_Step ==
    GenerateCompleted =>
        LET f == exit'.fetch
            seen == Persisted.seen_highlights
        IN  /\ Range(f.new_results) =
                   { h \in Range(readwise) : strip(h.text) \notin seen }
            /\ Len(f.new_results) =
                   Cardinality({ i \in DOMAIN readwise :
                                    strip(readwise[i].text) \notin seen })
            /\ Used(f) \cap seen = {}
            /\ Used(f) \subseteq { strip(h.text) : h \in Range(f.new_results) }

\* C8: the highlights a Generate run considers are exactly the fetched ones
\* whose trimmed text is not in the persisted seen set, and no text of that
\* set is passed to generation.
C8_OnlyUnseen == [][C8_Step]_vars

\* a run that dropped a fetched highlight whose text is in the seen set only
\* once trimmed, and passed another one on
C8_Witness ==
    /\ exit.mode = "generate" /\ exit.status = "ok"
    /\ exit.fetch.highlights # <<>>
    /\ \E h \in Range(readwise) \ Range(exit.fetch.new_results) :
          h.text # strip(h.text)

Candidates(f) == { str(h.book_id) : h \in Range(f.new_results) }

Latest(f, b) ==
    Max({ highlighted_at(h) : h \in { x \in Range(f.new_results) : str(x.book_id) = b } })

\* the book one Generate run selects
C10_Step ==
    GenerateCompleted /\ exit'.fetch.new_results # <<>> =>
        LET f == exit'.fetch
        IN  /\ f.book_id \in Candidates(f)
            /\ \A c \in Candidates(f) : Latest(f, f.book_id) >= Latest(f, c)
            /\ \A i \in DOMAIN PersistedNext.pending_tweets :
                  PersistedNext.pending_tweets[i].book_id = f.book_id
            /\ Len(f.highlights) =
                  Cardinality({ i \in DOMAIN f.new_results :
                                   str(f.new_results[i].book_id) = f.book_id })

\* C10: a Generate run with an unseen highlight selects one book, a candidate
\* whose latest unseen-highlight timestamp is at least that of every other
\* candidate; the queue and the highlights used are that book's alone.
C10_MostRecentBook == [][C10_Step]_vars

\* two candidate books, and the one selected is not the one fetched first
C10_Witness ==
    /\ exit.mode = "generate" /\ exit.status = "ok"
    /\ Cardinality(Candidates(exit.fetch)) = 2
    /\ str(exit.fetch.new_results[1].book_id) # exit.fetch.book_id

(***************************************************************************)
(* One item an invocation                                                  *)
(***************************************************************************)
UnpostedBook == { t \in Range(Persisted.pending_tweets) : ~t.posted /\ t.type = "book" }

LowestUnposted == CHOOSE t \in UnpostedBook : \A u \in UnpostedBook : t.order <= u.order

\* what one invocation of post mode does to the publish target
C11_Step ==
    exit'.mode = "post" =>
        /\ \/ tweets' = tweets /\ sent' = sent
           \/ Published /\ SubSeq(tweets', 1, Len(tweets)) = tweets
        /\ UnpostedBook = {} => tweets' = tweets /\ exit'.attempt = NoAttempt
        /\ UnpostedBook # {} =>
              /\ exit'.attempt = LowestUnposted.order
              /\ exit'.status = "ok" =>
                    /\ Published
                    /\ tweets'[Len(tweets')].text = LowestUnposted.text
                    /\ sent'[Len(sent')].order = LowestUnposted.order
                    /\ sent'[Len(sent')].type = "book"
              /\ exit'.status # "ok" => tweets' = tweets

\* C11: an invocation of post mode makes one publish call when an unposted
\* book item is queued, for the one of lowest order, and none otherwise; it
\* creates that one tweet when the call returns, and never two tweets.
C11_OneItem == [][C11_Step]_vars

\* the first of two book items went out; the second and the standalone item
\* are still queued
C11_Witness ==
    /\ exit.mode = "post" /\ exit.status = "ok" /\ exit.attempt = 0
    /\ \E t \in UnpostedBook : t.order = 1
    /\ \E t \in Range(Persisted.pending_tweets) : ~t.posted /\ t.type = "standalone"

(***************************************************************************)
(* A publish call that fails                                               *)
(***************************************************************************)
PostModes == {"post", "post_standalone", "post_interview"}

Stored == <<file_exists, content, disk>>

\* the invocation made its publish call and the call raised
PublishFailed(e) == e.mode \in PostModes /\ e.status = "raised"

C12_Step ==
    /\ PublishFailed(exit') /\ exit' # exit =>
          /\ exit'.attempt # NoAttempt
          /\ Stored' = Stored
          /\ tweets' = tweets /\ sent' = sent
    /\ PublishFailed(exit) /\ exit'.mode = exit.mode =>
          exit'.attempt = exit.attempt

\* C12: when the publish call of post, post_standalone or post_interview
\* fails the invocation ends with the error, state.json is what it was (the
\* item unposted, the thread records untouched) and no tweet exists; the next
\* invocation of that mode makes its publish call for the same item.
C12_FailureKeepsState == [][C12_Step]_vars

\* the publish call of post mode fails for a book that has a thread, with an
\* interview item and a standalone item queued as well
C12_Witness ==
    /\ PublishFailed(exit) /\ exit.mode = "post"
    /\ \E t \in UnpostedBook :
          /\ t.order = exit.attempt
          /\ t.book_id \in DOMAIN Persisted.book_threads
    /\ \E t \in Range(Persisted.interview.pending_tweets) : ~t.posted
    /\ \E t \in Range(Persisted.pending_tweets) : ~t.posted /\ t.type = "standalone"

(***************************************************************************)
(* A generation reply without a parseable post                             *)
(***************************************************************************)
\* a completed Generate run that used highlights and queued no book item:
\* generate_posts returned []
NoPostsParsed ==
    /\ GenerateCompleted /\ exit'.fetch.highlights # <<>>
    /\ \A t \in Range(PersistedNext.pending_tweets) : t.type # "book"

\* C13 as stated: after such a run the saved queue holds no unposted item.
C13_NothingQueued ==
    [][NoPostsParsed =>
          \A t \in Range(PersistedNext.pending_tweets) : t.posted]_vars

\* C13, amended: a Generate run whose generation reply holds no parseable
\* book post completes; the queue it saves holds no book item, so post mode
\* has nothing to publish, and holds the unposted standalone tweet of the
\* cycle alone, at order 0; the highlights used are marked seen.
C13_StandaloneQueued ==
    [][NoPostsParsed =>
          /\ exit'.status = "ok"
          /\ unposted_of(PersistedNext.pending_tweets, "book") = <<>>
          /\ Len(PersistedNext.pending_tweets) = 1
          /\ LET t == PersistedNext.pending_tweets[1]
             IN  /\ t.type = "standalone" /\ ~t.posted /\ t.order = 0
                 /\ t.book_id = exit'.fetch.book_id
          /\ Range(exit'.fetch.highlights) \subseteq PersistedNext.seen_highlights]_vars

\* such a run has replaced a queue of which a book item was published
C13_Witness ==
    /\ exit.mode = "generate" /\ exit.status = "ok"
    /\ exit.fetch.highlights # <<>>
    /\ Len(Persisted.pending_tweets) = 1
    /\ Persisted.pending_tweets[1].type = "standalone"
    /\ \E k \in DOMAIN sent : sent[k].type = "book"

(***************************************************************************)
(* A state file that is absent, empty or unparseable                       *)
(***************************************************************************)
Unreadable ==
    \/ ~file_exists
    \/ strip(content) = <<>>
    \/ json_loads_raises(strip(content))

\* what a first run of each mode does
C14_Step ==
    Unreadable /\ exit'.mode # "" =>
        /\ exit'.mode \in {"post", "post_standalone"} =>
              /\ exit'.status = "nothing"
              /\ Stored' = Stored /\ tweets' = tweets
        /\ exit'.mode = "generate" /\ exit'.status = "raised" => Stored' = Stored
        /\ GenerateCompleted =>
              /\ ~Unreadable'
              /\ PersistedNext.seen_highlights = Range(exit'.fetch.highlights)
              /\ PersistedNext.book_threads = FreshState.book_threads
              /\ PersistedNext.interview = FreshState.interview
              /\ PersistedNext.voice_examples = <<>>
              /\ IF exit'.fetch.highlights = <<>>
                 THEN PersistedNext.pending_tweets = <<>>
                 ELSE NewlyBuilt(PersistedNext.pending_tweets, exit'.fetch.book_id)

\* C14: with state.json absent, empty, blank or unparseable, loading yields
\* the fresh empty state (and the document otherwise), and the invocation
\* does what a first run does: the post modes find nothing to publish and
\* write nothing, Generate saves what it builds from the empty state.
C14_FreshOnBadFile ==
    /\ [](IF Unreadable THEN load_state = FreshState ELSE load_state = disk)
    /\ [][C14_Step]_vars

\* a Generate run has started over after the document of a book with a
\* published thread was lost
C14_Witness ==
    /\ exit.mode = "generate" /\ exit.status = "ok"
    /\ exit.fetch.highlights # <<>>
    /\ \E k \in DOMAIN sent : sent[k].type = "book"
    /\ Persisted.book_threads = FreshState.book_threads
    /\ Persisted.seen_highlights = Range(exit.fetch.highlights)

(***************************************************************************)
(* Overlapping invocations                                                 *)
(***************************************************************************)
\* the item an in-flight post invocation selected from the state it loaded
Selected(p) == unposted_of(inflight[p].state.pending_tweets, "book")[1]

InFlightPost(p) ==
    inflight[p].mode = "post" /\ inflight[p].pc \in {"loaded", "published"}

\* q makes its publish call in this step and the call returns
Publishes(q) ==
    /\ inflight[q].mode = "post" /\ inflight[q].pc = "loaded"
    /\ inflight'[q].pc = "published"

\* p and q loaded the same document and neither has saved
Overlapping(p, q) ==
    p # q /\ InFlightPost(p) /\ InFlightPost(q)
          /\ inflight[p].state = inflight[q].state

C15_Step ==
    \A q \in Invocations :
        Publishes(q) =>
            LET t == Selected(q)
                k == Len(sent')
            IN  /\ Published
                /\ tweets'[k].text = t.text
                /\ sent'[k].order = t.order /\ sent'[k].book_id = t.book_id
                /\ sent'[k].epoch = inflight[q].built
                /\ \A p \in Invocations :
                      Overlapping(p, q) =>
                          /\ Selected(p) = t
                          /\ inflight[p].pc = "published" =>
                                LET j == inflight[p].tweet_id
                                IN  /\ j \in DOMAIN sent
                                    /\ <<sent[j].type, sent[j].book_id, sent[j].order>>
                                         = <<"book", sent'[k].book_id, sent'[k].order>>
                                    /\ tweets[j] = tweets'[k]

\* C15: two post invocations that both load the state before either saves
\* select the same item, and each publishes the item it selected whatever
\* the other has done since: when the first has published, the publish call
\* of the second sends the same item again, to the same reply target.
C15_BothPublish == [][C15_Step]_vars

\* both have returned: one item of the queue is two tweets, and the saved
\* item carries the id of one of them
C15_Witness ==
    /\ \A p \in Invocations : inflight[p].pc = "idle"
    /\ exit.mode = "post" /\ exit.status = "ok"
    /\ \E i, j \in DOMAIN sent :
          /\ i < j /\ ItemOf(i) = ItemOf(j)
          /\ sent[i].type = "book"
          /\ sent[i].epoch = epoch.queue
          /\ \E t \in Range(Persisted.pending_tweets) :
                t.order = sent[i].order /\ t.posted /\ t.tweet_id \in {i, j}

\* p writes the file in this step
Saves(p, mode) ==
    /\ inflight[p].mode = mode /\ inflight[p].pc # "idle"
    /\ inflight'[p].pc = "idle"
    /\ exit'.status = "ok"

Unmarked(q) == [i \in DOMAIN q |-> [q[i] EXCEPT !.posted = FALSE, !.tweet_id = None]]

C16_Step ==
    \A p \in Invocations :
        LET L == inflight[p].state
            N == PersistedNext
        IN  /\ Saves(p, "post") =>
                  /\ N.seen_highlights = L.seen_highlights
                  /\ Unmarked(N.pending_tweets) = Unmarked(L.pending_tweets)
                  /\ \A i \in DOMAIN L.pending_tweets :
                        L.pending_tweets[i].posted =>
                            N.pending_tweets[i] = L.pending_tweets[i]
                  /\ DOMAIN N.book_threads =
                         DOMAIN L.book_threads \cup {Selected(p).book_id}
                  /\ \A b \in DOMAIN L.book_threads \ {Selected(p).book_id} :
                        N.book_threads[b] = L.book_threads[b]
            /\ Saves(p, "generate") =>
                  /\ N.book_threads = L.book_threads
                  /\ N.seen_highlights =
                         L.seen_highlights \cup Range(exit'.fetch.highlights)
                  /\ IF exit'.fetch.highlights = <<>>
                     THEN N.pending_tweets = L.pending_tweets
                     ELSE NewlyBuilt(N.pending_tweets, exit'.fetch.book_id)

\* the run of post mode is lost: its tweet exists, and the file holds the
\* queue it was taken from with the item unposted and no thread for the book
C16_PostLost ==
    /\ \A p \in Invocations : inflight[p].pc = "idle"
    /\ \E k \in DOMAIN sent :
          /\ sent[k].type = "book" /\ sent[k].epoch = epoch.queue
          /\ sent[k].book_id \notin DOMAIN Persisted.book_threads
          /\ \E t \in Range(Persisted.pending_tweets) :
                t.order = sent[k].order /\ ~t.posted

\* the run of Generate is lost: the file holds an older queue than the one
\* Generate built last, and fewer seen texts than queues were built
C16_GenerateLost ==
    /\ \A p \in Invocations : inflight[p].pc = "idle"
    /\ exit.mode = "post" /\ exit.status = "ok"
    /\ epoch.queue < epoch.book
    /\ Cardinality(Persisted.seen_highlights) < epoch.book

\* C16: the write that ends an invocation is the state it loaded with its
\* own changes and nothing else, so of a Generate run and a post run that
\* overlap the later write stands alone: what the earlier one saved (seen
\* texts and new queue, or posted flag and thread record) is gone.
C16_LastWriteStands == [][C16_Step]_vars

\* a Generate run that built a queue and a post run overlapped, and the
\* write of the post run came last
C16_Witness == C16_GenerateLost /\ \E k \in DOMAIN sent : sent[k].epoch = epoch.queue

(***************************************************************************)
(* The interview pipeline                                                  *)
(***************************************************************************)
InterviewPublished == Published /\ exit'.mode = "post_interview"

\* the tweet that was item `order` of build `built` of the interview queue
InterviewTweet(built, order) ==
    { j \in DOMAIN sent : ItemOf(j) = <<"interview", built, order>> }

C17_Chain ==
    \A k \in DOMAIN sent :
        sent[k].queue = "interview" =>
            IF sent[k].order = 0 THEN tweets[k].in_reply_to = None
            ELSE InterviewTweet(sent[k].epoch, sent[k].order - 1)
                     = {tweets[k].in_reply_to}

C17_Step ==
    InterviewPublished =>
        LET k == Len(tweets')
            order == sent'[k].order
            q == Persisted.interview.pending_tweets
        IN  /\ order = 0 => tweets'[k].in_reply_to = None
            /\ order > 0 =>
                  \E i \in DOMAIN q :
                      /\ q[i].order = order - 1
                      /\ q[i].posted /\ q[i].tweet_id # None
                      /\ tweets'[k].in_reply_to = q[i].tweet_id

\* C17: post_interview publishes the item of order 0 top-level and the item
\* of order k > 0 as a reply to the tweet_id of the item of order k-1 of the
\* same queue, which is posted by then; the tweets of one batch form one
\* reply chain in order.
C17_InterviewChain == []C17_Chain /\ [][C17_Step]_vars

\* a batch of two is out, the second as a reply to the first
C17_Witness ==
    /\ exit.mode = "post_interview" /\ exit.attempt = 1
    /\ \E j, k \in DOMAIN sent :
          /\ sent[k].queue = "interview" /\ sent[k].order = 1
          /\ tweets[k].in_reply_to = j
          /\ sent[j].order = 0 /\ sent[j].epoch = sent[k].epoch
    /\ \A t \in Range(Persisted.interview.pending_tweets) : t.posted

Open == { n \in DOMAIN issues : issues[n] = "open" }

C18_OneActive ==
    /\ Cardinality(Open) <= 1
    /\ Open \subseteq {Persisted.interview.issue_number}
    /\ Persisted.interview.issue_number # None =>
          /\ Persisted.interview.issue_number = Len(issues)
          /\ Persisted.interview.questions # <<>>

C18_Step ==
    exit'.mode = "interview_ask" =>
        LET old == Persisted.interview.issue_number
            new == PersistedNext.interview
        IN  /\ old # None => issues'[old] = "closed"
            /\ exit'.status = "ok" =>
                  /\ Len(issues') = Len(issues) + 1
                  /\ new.issue_number = Len(issues') /\ new.issue_number # old
                  /\ issues'[new.issue_number] = "open"
                  /\ new.questions # <<>>
                  /\ new.pending_tweets = <<>>
                  /\ new.last_answer = <<>> /\ new.last_rating = NoRating
            /\ exit'.status # "ok" =>
                  /\ Len(issues') = Len(issues)
                  /\ Stored' = Stored

RatedPair ==
    [a |-> Persisted.interview.last_answer,
     tweet |-> IF Persisted.interview.pending_tweets # <<>>
               THEN Persisted.interview.pending_tweets[1].text ELSE <<>>]

HasPair == RatedPair.a # <<>> /\ RatedPair.tweet # <<>>

\* new is old with the pair appended, cut to its last five entries
Appended(old, new, pair) ==
    /\ Len(new) = IF Len(old) < 5 THEN Len(old) + 1 ELSE 5
    /\ new[Len(new)] = pair
    /\ \A i \in 1..(Len(new) - 1) : new[i] = old[Len(old) - (Len(new) - 1) + i]

\* C19 as stated: every Generate run that reads a rating of 3 appends the pair.
C19_AlwaysAppended ==
    [][GenerateCompleted /\ exit'.rated = 3 =>
          Appended(Persisted.voice_examples, PersistedNext.voice_examples,
                   RatedPair)]_vars

C19_Step ==
    LET old == Persisted.voice_examples
        new == PersistedNext.voice_examples
        r == exit'.rated
    IN  /\ GenerateCompleted /\ r = 3 /\ HasPair => Appended(old, new, RatedPair)
        /\ GenerateCompleted /\ r = 3 /\ ~HasPair => new = old
        /\ GenerateCompleted /\ r \in {1, 2} => new = old
        /\ GenerateCompleted /\ r # None =>
              PersistedNext.interview.last_rating =
                  [rating |-> r, notes |-> <<"n">>,
                   tweets |-> Persisted.interview.pending_tweets]
        /\ GenerateCompleted /\ r = None =>
              /\ new = old
              /\ PersistedNext.interview.last_rating = Persisted.interview.last_rating
        /\ ~GenerateCompleted => new = old

\* C19, amended: a Generate run that reads 3 from the last rating comment of
\* the open issue appends the answer/post pair of the rated cycle to
\* voice_examples and keeps the last five, provided the persisted record
\* holds an answer and a first interview tweet; without them, and for a
\* rating of 1 or 2, voice_examples is unchanged; every rating read is
\* recorded as last_rating; voice_examples never has more than five entries.
C19_RatingThree ==
    /\ [](Len(Persisted.voice_examples) <= 5)
    /\ [][C19_Step]_vars

\* five examples of which the last is not the first, and a rating of 3 read
\* once more
C19_Witness ==
    /\ exit.mode = "generate" /\ exit.rated = 3
    /\ Len(Persisted.voice_examples) = 5
    /\ Persisted.voice_examples[5] # Persisted.voice_examples[1]
    /\ Persisted.interview.last_rating.rating = 3

\* C20 as stated: every pair of the persisted voice_examples is among the
\* examples each later generation call is given.
C20_ExamplesInContext ==
    [][exit'.voice # <<>> /\ exit' # exit =>
          Range(Persisted.voice_examples) \subseteq Range(exit'.voice)]_vars

(***************************************************************************)
(* Answers of the highlight source other than 200                          *)
(***************************************************************************)
\* a Generate run whose highlights request was answered 429
RateLimited(e) == e.mode = "generate" /\ e.http.highlights = 429

\* the run ended at the request: nothing fetched, no book request, nothing
\* generated or queued, state.json as it was
AbortedAtFetch ==
    /\ exit'.status = "raised"
    /\ exit'.http.book = None
    /\ exit'.fetch = NoFetch /\ exit'.voice = <<>>
    /\ Stored' = Stored

\* C21 as stated: a Generate run does not abort on a rate-limit answer.
C21_RetriesOnRateLimit == [][RateLimited(exit') => exit'.status # "raised"]_vars

\* C21, amended: a rate-limit answer to the highlights request is an error
\* like every other answer that is not 200: the run raises at once, without
\* a second request, generates and queues nothing and leaves state.json as
\* it was; the run always terminates.
C21_RateLimitAborts == [][RateLimited(exit') => AbortedAtFetch]_vars

\* the source answers 429 while a queue with an unposted item is stored
C21_Witness ==
    /\ RateLimited(exit) /\ exit.status = "raised"
    /\ \E t \in Range(Persisted.pending_tweets) : ~t.posted

\* a Generate run whose highlights request was answered with an error that
\* is not a rate limit
FetchFailed(e) == e.mode = "generate" /\ e.http.highlights \notin {None, 200, 429}

\* a Generate run whose book request was answered with an error
LookupFailed(e) == e.mode = "generate" /\ e.http.book \notin {None, 200}

\* C22 as stated: both kinds of answer abort the run and leave state.json.
C22_AnyFailureFatal ==
    [][FetchFailed(exit') \/ LookupFailed(exit') =>
          exit'.status = "raised" /\ Stored' = Stored]_vars

\* C22, amended: an error answer to the highlights request aborts the run,
\* nothing is generated or queued and state.json is as it was; an error
\* answer to the book request does not: the run goes on with the title
\* "Unknown Book", and when it completes it has queued the items of that
\* book under this title and marked the highlights seen.
C22_FetchFatalLookupNot ==
    [][/\ FetchFailed(exit') => AbortedAtFetch
       /\ LookupFailed(exit') /\ exit'.status = "ok" =>
             /\ NewlyBuilt(PersistedNext.pending_tweets, exit'.fetch.book_id)
             /\ \A t \in Range(PersistedNext.pending_tweets) :
                    t.book_title = "Unknown Book"
             /\ Range(exit'.fetch.highlights) \subseteq
                    PersistedNext.seen_highlights]_vars

\* a run completed after a failed book request, and a later run was aborted
\* by a failed highlights request with that queue stored
C22_Witness ==
    /\ FetchFailed(exit) /\ exit.status = "raised"
    /\ \E t \in Range(Persisted.pending_tweets) :
          ~t.posted /\ t.book_title = "Unknown Book"

(***************************************************************************)
(* The sanitizer                                                           *)
(***************************************************************************)
\* the texts of the items a Generate run has queued
Queued ==
    { t.text : t \in Range(Persisted.pending_tweets) } \cup
    { t.text : t \in Range(Persisted.interview.pending_tweets) }

OnlyAscii(text) == \A i \in DOMAIN text : text[i] \notin NonAscii

OnlyPrintable(text) == \A i \in DOMAIN text : text[i] \notin NonAscii \cup Control

NoRunOfSpaces(text) ==
    \A i \in 1..(Len(text) - 1) : ~(text[i] = " " /\ text[i + 1] = " ")

\* C23 as stated: every queued text is what the sanitizer returned, and
\* holds printable ASCII characters only and no two spaces in a row.
C23_PrintableOnly ==
    \A text \in Queued :
        OnlyPrintable(text) /\ NoRunOfSpaces(text)

\* C23, amended: what the sanitizer returns holds 7-bit ASCII characters
\* only (a control character such as a line break inside the text stays)
\* and no two spaces in a row; every text Generate queues is what the
\* sanitizer returned for the trimmed reply.
C23_AsciiOnly ==
    /\ \A text \in Queued :
          OnlyAscii(text) /\ NoRunOfSpaces(text)
    /\ \A text \in Queued : text \in {clean_post(strip(raw)), clean_post(strip(Plain))}

\* a reply with a dash and another character that is not ASCII is queued
\* as a book post: the hyphen is there, the other character is gone
C23_Witness ==
    /\ "u2014" \in Range(raw) /\ "u00e9" \in Range(raw)
    /\ \E t \in Range(Persisted.pending_tweets) :
          /\ t.type = "book"
          /\ "-" \in Range(t.text) /\ Len(t.text) < Len(raw)

(***************************************************************************)
(* One write for each invocation                                           *)
(***************************************************************************)
\* the running invocation ends with this step
Ends == inflight[Running].pc # "idle" /\ inflight'[Running].pc = "idle"

\* how an invocation ends that did not reach its save_state: an error was
\* raised, or the process was ended
FailedBeforeSave == {"raised", "stopped", "stopped after publish"}

FailedAfterSave == {"raised after save", "stopped after save"}

\* C24 as stated: an invocation that ends with an error leaves state.json
\* holding what it held when the invocation loaded it, and no invocation
\* goes on after its save_state.
C24_FailureLeavesStart ==
    /\ [](inflight[Running].pc # "saved")
    /\ [][Ends /\ exit'.status \in {"raised", "raised after save"} =>
             PersistedNext = inflight[Running].start]_vars

C24_Step ==
    LET f == inflight[Running]
    IN  /\ f.pc \in {"loaded", "published", "created"} => Persisted = f.start
        /\ Stored' # Stored =>
              /\ f.pc \in {"loaded", "published", "created"}
              /\ inflight'[Running].pc \in {"idle", "saved"}
        /\ f.pc = "saved" => f.mode \in {"post_interview", "interview_ask"}
        /\ Ends /\ exit'.status \in FailedBeforeSave =>
              Stored' = Stored /\ PersistedNext = f.start
        /\ Ends /\ exit'.status \in FailedAfterSave =>
              /\ f.pc = "saved" /\ Stored' = Stored
              /\ f.mode = "post_interview" =>
                    \E t \in Range(PersistedNext.interview.pending_tweets) :
                        /\ t.order = exit'.attempt /\ t.posted
                        /\ \A u \in Range(f.start.interview.pending_tweets) :
                              u.order = t.order => ~u.posted

\* C24, amended: every invocation writes state.json at most once.  In
\* generate, post and post_standalone the write is the last step, after every
\* external call; post_interview makes the rating request and interview_ask
\* the analytics digest after it.  An invocation that fails before its write
\* leaves state.json holding what it held at the start (a failure in the
\* interview half of Generate discards the queue and the seen highlights of
\* the book half); a post_interview run that fails at the rating request has
\* already written the published item as posted.
C24_OneWrite == [][C24_Step]_vars

\* a Generate run used new highlights and then raised in its interview
\* half: the highlights are not marked seen and no queue is stored
C24_Witness ==
    /\ exit.mode = "generate" /\ exit.status = "raised"
    /\ exit.fetch.highlights # <<>>
    /\ Range(exit.fetch.highlights) \cap Persisted.seen_highlights = {}
    /\ Persisted.pending_tweets = <<>>
    /\ Persisted.interview.issue_number # None

(***************************************************************************)
(* An invocation ended between its publish call and its save_state         *)
(***************************************************************************)
\* the queue a post mode works on, in a document
QueueOf(mode, state) ==
    IF mode = "post_interview" THEN state.interview.pending_tweets
    ELSE state.pending_tweets

\* the last invocation that ended was ended after its publish call returned
StoppedAfterPublish(e) ==
    e.mode \in PostModes /\ e.status = "stopped after publish"

C25_Step ==
    LET f == inflight[Running]
        k == Len(tweets)
    IN  /\ Ends /\ StoppedAfterPublish(exit') =>
              /\ Stored' = Stored /\ tweets' = tweets
              /\ f.tweet_id = k
              /\ \E t \in Range(QueueOf(f.mode, PersistedNext)) :
                    /\ t.order = exit'.attempt /\ ~t.posted /\ t.tweet_id = None
                    /\ t.text = tweets[k].text
        /\ StoppedAfterPublish(exit) /\ f.mode = exit.mode /\ f.pc = "loaded" =>
              /\ unposted_first(Running).order = exit.attempt
              /\ Published =>
                    /\ tweets'[k + 1] = tweets[k]
                    /\ sent'[k + 1] = sent[k]

\* C25: when a post, post_standalone or post_interview invocation is ended
\* after its publish call returned and before save_state, the tweet exists
\* and the item is unposted in state.json; the next invocation of that mode
\* selects the same item and its publish call creates a second tweet with
\* the same text and the same reply target.
C25_AtLeastOnce == [][C25_Step]_vars

\* the second book item was published twice, each time as a reply to the
\* first tweet of the thread, and the second invocation saved it
C25_Witness ==
    /\ exit.mode = "post" /\ exit.status = "ok"
    /\ \E j, k \in DOMAIN tweets :
          /\ j < k /\ tweets[j] = tweets[k] /\ sent[j] = sent[k]
          /\ tweets[j].in_reply_to # None
          /\ \E t \in Range(Persisted.pending_tweets) :
                t.order = sent[k].order /\ t.posted /\ t.tweet_id = k

(***************************************************************************)
(* What a post mode leaves alone                                           *)
(***************************************************************************)
\* queue q1 is queue q with the item of this order marked posted with the
\* id of the tweet just created, and nothing else changed
OnlyMarked(q, q1, order) ==
    /\ Len(q1) = Len(q)
    /\ \A i \in DOMAIN q :
          q1[i] = IF q[i].order = order
                  THEN [q[i] EXCEPT !.posted = TRUE, !.tweet_id = Len(tweets')]
                  ELSE q[i]

\* the fields of the document no post mode writes
SameRest(s, s1) ==
    /\ s1.seen_highlights = s.seen_highlights
    /\ s1.voice_examples = s.voice_examples
    /\ s1.question_history = s.question_history

C26_Step ==
    LET s == Persisted
        s1 == PersistedNext
    IN  /\ exit'.mode \in PostModes => SameRest(s, s1)
        /\ exit'.mode \in PostModes /\ ~Published => s1 = s
        /\ exit'.mode = "post_standalone" /\ Published =>
              /\ tweets'[Len(tweets')].in_reply_to = None
              /\ s1.book_threads = s.book_threads
              /\ s1.interview = s.interview
              /\ OnlyMarked(s.pending_tweets, s1.pending_tweets, exit'.attempt)
        /\ exit'.mode = "post" /\ Published =>
              /\ s1.interview = s.interview
              /\ OnlyMarked(s.pending_tweets, s1.pending_tweets, exit'.attempt)
              /\ \A i \in DOMAIN s.pending_tweets :
                    s.pending_tweets[i].type = "standalone" =>
                        s1.pending_tweets[i] = s.pending_tweets[i]
              /\ \A b \in DOMAIN s.book_threads :
                    b # LowestUnposted.book_id =>
                        /\ b \in DOMAIN s1.book_threads
                        /\ s1.book_threads[b] = s.book_threads[b]
              /\ DOMAIN s1.book_threads =
                    DOMAIN s.book_threads \cup {LowestUnposted.book_id}
        /\ exit'.mode = "post_interview" /\ Published =>
              /\ s1.book_threads = s.book_threads
              /\ s1.pending_tweets = s.pending_tweets
              /\ s1.interview =
                    [s.interview EXCEPT !.pending_tweets = s1.interview.pending_tweets]
              /\ OnlyMarked(s.interview.pending_tweets,
                            s1.interview.pending_tweets, exit'.attempt)

\* C26: a post mode that publishes changes, in state.json, the posted flag
\* and the id of the one item it published, and post mode the thread record
\* of that item's book; nothing else.  post_standalone publishes without a
\* reply target and leaves book_threads, seen_highlights and the interview
\* record; post leaves seen_highlights, the interview record and the
\* standalone items; post_interview leaves seen_highlights, book_threads and
\* pending_tweets.  A post mode that does not publish changes nothing.
C26_OnlyTheItem == [][C26_Step]_vars

\* the standalone tweet of a book that has a thread was published as a
\* top-level tweet, with an unposted interview item queued
C26_Witness ==
    /\ exit.mode = "post_standalone" /\ exit.status = "ok"
    /\ tweets[Len(tweets)].in_reply_to = None
    /\ \E t \in Range(Persisted.pending_tweets) :
          /\ t.type = "standalone" /\ t.tweet_id = Len(tweets)
          /\ t.book_id \in DOMAIN Persisted.book_threads
    /\ \E t \in Range(Persisted.interview.pending_tweets) : ~t.posted

(***************************************************************************)
(* Post mode drains the queue                                              *)
(***************************************************************************)
BookItems == { t \in Range(Persisted.pending_tweets) : t.type = "book" }

\* the posted book items are the first of the queue, published in the
\* order of the queue
PostedPrefix ==
    \A t, u \in BookItems :
        t.order < u.order /\ u.posted => t.posted /\ t.tweet_id < u.tweet_id

Drained == BookItems # {} /\ \A t \in BookItems : t.posted

\* a post invocation on a queue without an unposted book item
C27_AfterDrain ==
    UnpostedBook = {} /\ exit'.mode = "post" =>
        /\ exit'.status = "nothing" /\ exit'.attempt = NoAttempt
        /\ tweets' = tweets /\ Stored' = Stored

\* C27: once Generate has queued book items, and with no further Generate
\* run, repeated post invocations whose publish calls eventually succeed
\* mark every book item posted; they publish in ascending order, the posted
\* items being at every moment the first of the queue; a post invocation
\* after that makes no publish call and leaves state.json as it is.
C27_QueueDrains ==
    /\ [](PostedPrefix)
    /\ [][C27_AfterDrain]_vars
    /\ (BookItems # {}) ~> Drained

\* a queue of MaxPosts book items, each published and marked, and a post
\* invocation after that which found nothing to publish
C27_Witness ==
    /\ Drained /\ Cardinality(BookItems) = MaxPosts
    /\ exit.mode = "post" /\ exit.status = "nothing"
    /\ Len(tweets) = MaxPosts

====
